---- MODULE Spec2Model ----
(***************************************************************************)
(* Model of the Eviqo WebSocket client (nodejs/src/client.ts) and of the   *)
(* frame codec it uses (nodejs/src/utils/protocol.ts).                     *)
(*                                                                         *)
(* In the model of the client a frame (a Buffer) is a record [hdr, body]:   *)
(* hdr is the sequence of the first (at most four) bytes, body describes   *)
(* the bytes after the header.  The codec is modelled a second time on the *)
(* bytes themselves (SpecCodec), with the decodings, JSON.parse and        *)
(* JSON.stringify it relies on.                                            *)
(* Time is in milliseconds and advances in steps of TickMs.                *)
(***************************************************************************)
EXTENDS Integers, Sequences, FiniteSets, TLC

\* ------------------------------------------------------------------ bounds
\* Clock ticks the model lets pass (each TickMs long).
MaxTicks == 8
\* Binary frames the server sends during one run.
MaxFrames == 6
\* Largest value the message counter is let to reach.
MaxSends == 258
\* Handlers of listen() counted on the socket in SpecLive.
MaxHandlers == 3
\* Frames kept in the log of the wire in SpecLive.
MaxLog == 7
\* In SpecLive the connection drops, if it does, before the message counter
\* has passed this value.
MaxDropAt == 4
\* Longest payload SpecCodec draws byte by byte from CodecAlphabet.
MaxPayloadLen == 3
\* Longest email SpecCodec draws character by character.
MaxEmailLen == 2
MaxTexts == 1

\* ------------------------------------------------------- program constants
\* client.ts:154  if (elapsed >= 15000)
KeepaliveMs == 15000
\* client.ts:383  duration = 10 (seconds)
DefaultListenS == 10
\* client.ts:511  this.listen(20)
SteadyListenS == 20
\* protocol.ts:66  byte2 === 0x14
WidgetUpdateB2 == 20
\* protocol.ts:202  Buffer.from([...]) stores each number modulo 256
ByteMod == 256
\* Granularity of the modelled clock: 5 s divides all three durations.
TickMs == 5 * 1000

\* ------------------------------------------------------------------ values
Null == [t |-> "null"]
Obj(v) == [t |-> "obj", v |-> v]
Str(s) == [t |-> "str", s |-> s]

NoBody == [kind |-> "none"]
\* Bytes of a JSON text whose value is v.
JsonBody(v) == [kind |-> "json", v |-> v]
\* Bytes of a non-empty string.
Utf8Body(s) == [kind |-> "utf8", s |-> s]
\* Bytes made of the given strings separated by single 0x00 bytes.
NulSepBody(parts) == [kind |-> "nulsep", parts |-> parts]

NoFrame == [hdr |-> <<>>, body |-> NoBody]
NullResult == [header |-> Null, payload |-> Null]

\* ------------------------------------------------------------------- codec
\* protocol.ts:157  payloadData.toString('binary').split('\x00')
SplitNul(body) ==
  IF body.kind = "nulsep" THEN body.parts ELSE <<body>>

parseWidgetUpdate(body) ==
  LET parts == SplitNul(body) IN
  IF Len(parts) < 2
    THEN Obj([error |-> "Insufficient null terminators", rawHex |-> body])
    ELSE Obj([ widgetId    |-> IF Len(parts) > 2 THEN parts[3] ELSE "",
               deviceId    |-> parts[1],
               widgetValue |-> IF Len(parts) > 3 THEN parts[4] ELSE "" ])

\* protocol.ts:222-239: the bodies of this model that hold a 0x00 byte are
\* the nul-separated ones; JSON texts and the strings used are printable.
isPrintable(body) == body.kind # "nulsep"

parseBinaryMessage(data) ==
  IF Len(data.hdr) < 4 THEN NullResult
  ELSE
    LET hasPayload == data.body # NoBody
        byte2 == data.hdr[2]
        typed ==
          IF ~hasPayload THEN [type |-> "unset", payload |-> Null]
          ELSE IF byte2 = WidgetUpdateB2
            THEN [type |-> "widget_update", payload |-> parseWidgetUpdate(data.body)]
          ELSE IF data.body.kind = "json"
            THEN [type |-> "json", payload |-> Obj(data.body.v)]
          ELSE IF isPrintable(data.body)
            THEN [type |-> "ascii", payload |-> Str(data.body.s)]
          ELSE [type |-> "binary", payload |-> Obj([hex |-> data.body])]
    IN [ header  |-> [ t |-> "header",
                       byte1 |-> data.hdr[1], byte2 |-> byte2,
                       byte3 |-> data.hdr[3], byte4 |-> data.hdr[4],
                       hasPayload |-> hasPayload,
                       payloadType |-> typed.type ],
         payload |-> typed.payload ]

\* createBinaryMessage with header bytes clamped to 255 instead of wrapped.
createBinaryMessageClamped(payload, byte1, byte2, byte3, byte4) ==
  LET Clamp(b) == IF b > 255 THEN 255 ELSE b
      header == << Clamp(byte1), Clamp(byte2), Clamp(byte3), Clamp(byte4) >> IN
  IF payload.t = "str"
    THEN [hdr |-> header, body |-> IF payload.s = "" THEN NoBody ELSE Utf8Body(payload.s)]
  ELSE IF payload # Null
    THEN [hdr |-> header, body |-> JsonBody(payload.v)]
  ELSE [hdr |-> header, body |-> NoBody]

\* protocol.ts:194-214
createBinaryMessage(payload, byte1, byte2, byte3, byte4) ==
  LET header == << byte1 % ByteMod, byte2 % ByteMod, byte3 % ByteMod, byte4 % ByteMod >> IN
  IF payload.t = "str"
    THEN [hdr |-> header, body |-> IF payload.s = "" THEN NoBody ELSE Utf8Body(payload.s)]
  ELSE IF payload # Null
    THEN [hdr |-> header, body |-> JsonBody(payload.v)]
  ELSE [hdr |-> header, body |-> NoBody]

\* ---------------------------------------------------- the codec, on bytes
\* The same functions of utils/protocol.ts computed on the bytes themselves:
\* a Buffer is a sequence of bytes 0..255, a JS string a sequence of
\* character codes.  JS values are Null, Bool, Num, Str (of codes), Arr and
\* Obj; an object read by JSON.parse is Obj of its <<key, value>> pairs in
\* the order of the text, an object built by the code is Obj of a record.
Bool(b) == [t |-> "bool", b |-> b]
\* A decimal number: sign, integer part, digits after the point (no
\* trailing zero).
Num(neg, int, frac) == [t |-> "num", neg |-> neg, int |-> int, frac |-> frac]
Arr(a) == [t |-> "arr", a |-> a]

\* protocol.ts:36  data.length < 4;  protocol.ts:65  data.subarray(4)
HeaderLen == 4
\* protocol.ts:97  payloadData.length > 50, payloadData.subarray(0, 50)
PreviewLen == 50

HexDigit(n) == IF n < 10 THEN 48 + n ELSE 87 + n
HexValue(c) ==
  IF c >= 48 /\ c <= 57 THEN c - 48
  ELSE IF c >= 97 /\ c <= 102 THEN c - 87
  ELSE IF c >= 65 /\ c <= 70 THEN c - 55
  ELSE 0 - 1

\* buf.toString('hex'): two lower-case hex digits for each byte.
toStringHex(buf) ==
  [i \in 1..(2 * Len(buf)) |->
     IF i % 2 = 1 THEN HexDigit(buf[(i + 1) \div 2] \div 16)
                  ELSE HexDigit(buf[i \div 2] % 16)]

\* buf.toString('binary') (latin1): one character for each byte, its code
\* the byte's value.
toStringBinary(buf) == [i \in 1..Len(buf) |-> buf[i]]

\* buf.toString('ascii'): Node clears the top bit of each byte and decodes
\* the result as latin1.
toStringAscii(buf) == [i \in 1..Len(buf) |-> buf[i] % 128]

IsCont(b) == b >= 128 /\ b <= 191
\* The second byte a three-byte sequence led by c may have.
IsSecondOf(c, b) ==
  IF c = 224 THEN b >= 160 /\ b <= 191
  ELSE IF c = 237 THEN b >= 128 /\ b <= 159
  ELSE IsCont(b)

\* buf.toString('utf-8'): one- to three-byte sequences are decoded, every
\* maximal ill-formed prefix becomes U+FFFD.  Four-byte sequences (lead
\* bytes 0xF0..0xF4) are outside the bytes this model feeds the codec.
RECURSIVE toStringUtf8(_)
toStringUtf8(buf) ==
  IF buf = <<>> THEN <<>>
  ELSE
    LET c == buf[1]
        n == Len(buf) IN
    IF c < 128 THEN <<c>> \o toStringUtf8(SubSeq(buf, 2, n))
    ELSE IF c >= 194 /\ c <= 223 /\ n >= 2 /\ IsCont(buf[2])
      THEN <<(c - 192) * 64 + (buf[2] - 128)>> \o toStringUtf8(SubSeq(buf, 3, n))
    ELSE IF c >= 224 /\ c <= 239 /\ n >= 2 /\ IsSecondOf(c, buf[2])
      THEN IF n >= 3 /\ IsCont(buf[3])
             THEN <<(c - 224) * 4096 + (buf[2] - 128) * 64 + (buf[3] - 128)>>
                    \o toStringUtf8(SubSeq(buf, 4, n))
             ELSE <<65533>> \o toStringUtf8(SubSeq(buf, 3, n))
    ELSE <<65533>> \o toStringUtf8(SubSeq(buf, 2, n))

\* Buffer.from(str, 'utf-8') for characters below U+10000.
RECURSIVE bufferFromUtf8(_)
bufferFromUtf8(str) ==
  IF str = <<>> THEN <<>>
  ELSE
    LET c == str[1]
        bytes == IF c < 128 THEN <<c>>
                 ELSE IF c < 2048 THEN <<192 + (c \div 64), 128 + (c % 64)>>
                 ELSE <<224 + (c \div 4096), 128 + ((c \div 64) % 64), 128 + (c % 64)>>
    IN bytes \o bufferFromUtf8(Tail(str))

\* String.prototype.split('\x00'): the pieces between the 0 characters.
RECURSIVE splitNul(_)
splitNul(str) ==
  LET nuls == {i \in 1..Len(str) : str[i] = 0} IN
  IF nuls = {} THEN <<str>>
  ELSE
    LET first == CHOOSE i \in nuls : \A j \in nuls : i <= j IN
    <<SubSeq(str, 1, first - 1)>> \o splitNul(SubSeq(str, first + 1, Len(str)))

\* ---- JSON.parse.  Exponents in numbers are not modelled: no text this
\* model parses has one.
JsonFail == [ok |-> FALSE, v |-> Null, i |-> 0]
JsonOk(v, i) == [ok |-> TRUE, v |-> v, i |-> i]

IsDigit(c) == c >= 48 /\ c <= 57
IsWs(c) == c \in {32, 9, 10, 13}

RECURSIVE skipWs(_, _)
skipWs(s, i) == IF i <= Len(s) /\ IsWs(s[i]) THEN skipWs(s, i + 1) ELSE i

RECURSIVE digitsEnd(_, _)
digitsEnd(s, i) == IF i <= Len(s) /\ IsDigit(s[i]) THEN digitsEnd(s, i + 1) ELSE i

RECURSIVE decimalValue(_)
decimalValue(d) ==
  IF d = <<>> THEN 0
  ELSE 10 * decimalValue(SubSeq(d, 1, Len(d) - 1)) + (d[Len(d)] - 48)

RECURSIVE decimalDigits(_)
decimalDigits(n) ==
  IF n < 10 THEN <<48 + n>> ELSE Append(decimalDigits(n \div 10), 48 + (n % 10))

RECURSIVE stripZeros(_)
stripZeros(d) ==
  IF d # <<>> /\ d[Len(d)] = 48 THEN stripZeros(SubSeq(d, 1, Len(d) - 1)) ELSE d

StartsWith(s, i, lit) ==
  i + Len(lit) - 1 <= Len(s) /\ SubSeq(s, i, i + Len(lit) - 1) = lit

\* -? ( 0 | [1-9][0-9]* ) ( . [0-9]+ )?
parseNumber(s, i) ==
  LET neg == s[i] = 45
      j == IF neg THEN i + 1 ELSE i
      k == IF j <= Len(s) /\ s[j] = 48 THEN j + 1 ELSE digitsEnd(s, j)
      hasFrac == k <= Len(s) /\ s[k] = 46
      m == IF hasFrac THEN digitsEnd(s, k + 1) ELSE k
  IN IF k = j THEN JsonFail
     ELSE IF hasFrac /\ m = k + 1 THEN JsonFail
     ELSE JsonOk(Num(neg, decimalValue(SubSeq(s, j, k - 1)),
                     IF hasFrac THEN stripZeros(SubSeq(s, k + 1, m - 1)) ELSE <<>>), m)

Escapes == {34, 92, 47, 98, 102, 110, 114, 116}
Unescape(c) ==
  CASE c = 98 -> 8 [] c = 102 -> 12 [] c = 110 -> 10 [] c = 114 -> 13
    [] c = 116 -> 9 [] OTHER -> c

\* The characters of a string literal from position i to its closing quote.
RECURSIVE parseString(_, _, _)
parseString(s, i, acc) ==
  IF i > Len(s) THEN JsonFail
  ELSE IF s[i] = 34 THEN JsonOk(Str(acc), i + 1)
  ELSE IF s[i] = 92 THEN
    IF i + 1 > Len(s) THEN JsonFail
    ELSE IF s[i + 1] = 117 THEN
      IF i + 5 <= Len(s) /\ \A k \in 2..5 : HexValue(s[i + k]) >= 0
        THEN parseString(s, i + 6,
               Append(acc, 4096 * HexValue(s[i + 2]) + 256 * HexValue(s[i + 3])
                           + 16 * HexValue(s[i + 4]) + HexValue(s[i + 5])))
        ELSE JsonFail
    ELSE IF s[i + 1] \in Escapes
      THEN parseString(s, i + 2, Append(acc, Unescape(s[i + 1])))
    ELSE JsonFail
  ELSE IF s[i] < 32 THEN JsonFail
  ELSE parseString(s, i + 1, Append(acc, s[i]))

\* A member read again replaces the value read before, in its place.
putMember(pairs, key, value) ==
  IF \E j \in 1..Len(pairs) : pairs[j][1] = key
    THEN [j \in 1..Len(pairs) |->
            IF pairs[j][1] = key THEN <<key, value>> ELSE pairs[j]]
    ELSE Append(pairs, <<key, value>>)

RECURSIVE parseValue(_, _)
RECURSIVE parseMembers(_, _, _)
RECURSIVE parseElements(_, _, _)
parseValue(s, from) ==
  LET i == skipWs(s, from) IN
  IF i > Len(s) THEN JsonFail
  ELSE IF s[i] = 123 THEN
    LET j == skipWs(s, i + 1) IN
    IF j <= Len(s) /\ s[j] = 125 THEN JsonOk(Obj(<<>>), j + 1)
    ELSE parseMembers(s, j, <<>>)
  ELSE IF s[i] = 91 THEN
    LET j == skipWs(s, i + 1) IN
    IF j <= Len(s) /\ s[j] = 93 THEN JsonOk(Arr(<<>>), j + 1)
    ELSE parseElements(s, j, <<>>)
  ELSE IF s[i] = 34 THEN parseString(s, i + 1, <<>>)
  ELSE IF s[i] = 45 \/ IsDigit(s[i]) THEN parseNumber(s, i)
  ELSE IF StartsWith(s, i, <<116, 114, 117, 101>>) THEN JsonOk(Bool(TRUE), i + 4)
  ELSE IF StartsWith(s, i, <<102, 97, 108, 115, 101>>) THEN JsonOk(Bool(FALSE), i + 5)
  ELSE IF StartsWith(s, i, <<110, 117, 108, 108>>) THEN JsonOk(Null, i + 4)
  ELSE JsonFail

parseMembers(s, i, acc) ==
  IF i > Len(s) \/ s[i] # 34 THEN JsonFail
  ELSE
    LET key == parseString(s, i + 1, <<>>) IN
    IF ~key.ok THEN JsonFail
    ELSE
      LET colon == skipWs(s, key.i) IN
      IF colon > Len(s) \/ s[colon] # 58 THEN JsonFail
      ELSE
        LET value == parseValue(s, colon + 1) IN
        IF ~value.ok THEN JsonFail
        ELSE
          LET e == skipWs(s, value.i)
              members == putMember(acc, key.v.s, value.v) IN
          IF e > Len(s) THEN JsonFail
          ELSE IF s[e] = 125 THEN JsonOk(Obj(members), e + 1)
          ELSE IF s[e] = 44 THEN parseMembers(s, skipWs(s, e + 1), members)
          ELSE JsonFail

parseElements(s, i, acc) ==
  LET value == parseValue(s, i) IN
  IF ~value.ok THEN JsonFail
  ELSE
    LET e == skipWs(s, value.i)
        elements == Append(acc, value.v) IN
    IF e > Len(s) THEN JsonFail
    ELSE IF s[e] = 93 THEN JsonOk(Arr(elements), e + 1)
    ELSE IF s[e] = 44 THEN parseElements(s, e + 1, elements)
    ELSE JsonFail

\* JSON.parse(str): ok is FALSE where it throws a SyntaxError.
JSONparse(str) ==
  LET value == parseValue(str, 1) IN
  IF value.ok /\ skipWs(str, value.i) = Len(str) + 1
    THEN [ok |-> TRUE, v |-> value.v]
    ELSE [ok |-> FALSE, v |-> Null]

\* ---- JSON.stringify
RECURSIVE escapeString(_)
escapeString(str) ==
  IF str = <<>> THEN <<>>
  ELSE
    LET c == str[1]
        text == CASE c = 34 -> <<92, 34>>
                  [] c = 92 -> <<92, 92>>
                  [] c = 8  -> <<92, 98>>
                  [] c = 12 -> <<92, 102>>
                  [] c = 10 -> <<92, 110>>
                  [] c = 13 -> <<92, 114>>
                  [] c = 9  -> <<92, 116>>
                  [] OTHER  ->
                       IF c < 32
                         THEN <<92, 117, 48, 48, HexDigit(c \div 16), HexDigit(c % 16)>>
                         ELSE <<c>>
    IN text \o escapeString(Tail(str))

quote(str) == <<34>> \o escapeString(str) \o <<34>>

RECURSIVE JSONstringify(_)
RECURSIVE stringifyMembers(_)
RECURSIVE stringifyElements(_)
JSONstringify(v) ==
  CASE v.t = "null" -> <<110, 117, 108, 108>>
    [] v.t = "bool" -> IF v.b THEN <<116, 114, 117, 101>> ELSE <<102, 97, 108, 115, 101>>
    [] v.t = "num"  -> (IF v.neg THEN <<45>> ELSE <<>>) \o decimalDigits(v.int)
                         \o (IF v.frac = <<>> THEN <<>> ELSE <<46>> \o v.frac)
    [] v.t = "str"  -> quote(v.s)
    [] v.t = "arr"  -> <<91>> \o stringifyElements(v.a) \o <<93>>
    [] v.t = "obj"  -> <<123>> \o stringifyMembers(v.v) \o <<125>>

stringifyMembers(pairs) ==
  IF pairs = <<>> THEN <<>>
  ELSE quote(pairs[1][1]) \o <<58>> \o JSONstringify(pairs[1][2])
         \o (IF Len(pairs) > 1 THEN <<44>> \o stringifyMembers(Tail(pairs)) ELSE <<>>)

stringifyElements(a) ==
  IF a = <<>> THEN <<>>
  ELSE JSONstringify(a[1])
         \o (IF Len(a) > 1 THEN <<44>> \o stringifyElements(Tail(a)) ELSE <<>>)

\* ---- utils/protocol.ts
\* isPrintableStr without the tab among the characters it accepts.
isPrintableStrNoTab(str) ==
  \A i \in 1..Len(str) :
    \/ str[i] >= 32 /\ str[i] <= 126
    \/ str[i] \in {10, 13}

\* protocol.ts:222-239
isPrintableStr(str) ==
  \A i \in 1..Len(str) :
    \/ str[i] >= 32 /\ str[i] <= 126
    \/ str[i] \in {10, 13, 9}

\* parseWidgetUpdateBytes reading the widget id from the second field.
parseWidgetUpdateBytesSecondField(payloadData) ==
  LET parts == splitNul(toStringBinary(payloadData)) IN
  IF Len(parts) < 2
    THEN Obj([error |-> "Insufficient null terminators", rawHex |-> toStringHex(payloadData)])
    ELSE Obj([ widgetId    |-> parts[2],
               deviceId    |-> parts[1],
               widgetValue |-> IF Len(parts) > 3 THEN parts[4] ELSE <<>> ])

\* parseWidgetUpdateBytes taking any payload as a full update.
parseWidgetUpdateBytesNoCheck(payloadData) ==
  LET parts == splitNul(toStringBinary(payloadData)) IN
  Obj([ widgetId    |-> IF Len(parts) > 2 THEN parts[3] ELSE <<>>,
        deviceId    |-> parts[1],
        widgetValue |-> IF Len(parts) > 3 THEN parts[4] ELSE <<>> ])

\* protocol.ts:150-182; nothing in the try block throws, its catch is dead.
parseWidgetUpdateBytes(payloadData) ==
  LET parts == splitNul(toStringBinary(payloadData)) IN
  IF Len(parts) < 2
    THEN Obj([error |-> "Insufficient null terminators", rawHex |-> toStringHex(payloadData)])
    ELSE Obj([ widgetId    |-> IF Len(parts) > 2 THEN parts[3] ELSE <<>>,
               deviceId    |-> parts[1],
               widgetValue |-> IF Len(parts) > 3 THEN parts[4] ELSE <<>> ])

\* binaryDescriptor with the preview never cut.
binaryDescriptorFullPreview(payloadData) ==
  Obj([ hex     |-> toStringHex(payloadData),
        length  |-> Len(payloadData),
        preview |-> toStringHex(payloadData) ])

\* protocol.ts:92-100: the payload of a frame classified binary.
binaryDescriptor(payloadData) ==
  Obj([ hex     |-> toStringHex(payloadData),
        length  |-> Len(payloadData),
        preview |-> IF Len(payloadData) > PreviewLen
                      THEN toStringHex(SubSeq(payloadData, 1, PreviewLen))
                      ELSE toStringHex(payloadData) ])

\* sniffPayload trying the text decodings before JSON.
sniffPayloadTextFirst(payloadData) ==
  LET asciiStr == toStringAscii(payloadData)
      utf8Str == toStringUtf8(payloadData)
      json == JSONparse(utf8Str) IN
  IF isPrintableStr(asciiStr) THEN [type |-> "ascii", payload |-> Str(asciiStr)]
  ELSE IF isPrintableStr(utf8Str) THEN [type |-> "text", payload |-> Str(utf8Str)]
  ELSE IF json.ok THEN [type |-> "json", payload |-> json.v]
  ELSE [type |-> "binary", payload |-> binaryDescriptor(payloadData)]

\* protocol.ts:69-128: the payload of a frame that is not a widget update.
\* No decoding throws, so the two inner catch blocks are dead.
sniffPayload(payloadData) ==
  LET json == JSONparse(toStringUtf8(payloadData))
      asciiStr == toStringAscii(payloadData)
      utf8Str == toStringUtf8(payloadData) IN
  IF json.ok THEN [type |-> "json", payload |-> json.v]
  ELSE IF isPrintableStr(asciiStr) THEN [type |-> "ascii", payload |-> Str(asciiStr)]
  ELSE IF isPrintableStr(utf8Str) THEN [type |-> "text", payload |-> Str(utf8Str)]
  ELSE [type |-> "binary", payload |-> binaryDescriptor(payloadData)]

\* parseFrame sniffing the content before it looks at byte2.
parseFrameSniffFirst(data) ==
  LET hasPayload == Len(data) > HeaderLen
      payloadData == SubSeq(data, HeaderLen + 1, Len(data))
      sniffed == sniffPayload(payloadData)
      typed ==
        IF ~hasPayload THEN [type |-> "unset", payload |-> Null]
        ELSE IF sniffed.type # "binary" THEN sniffed
        ELSE IF data[2] = WidgetUpdateB2
          THEN [type |-> "widget_update", payload |-> parseWidgetUpdateBytes(payloadData)]
        ELSE sniffed
  IN [ header  |-> [ t |-> "header",
                     byte1 |-> data[1], byte2 |-> data[2],
                     byte3 |-> data[3], byte4 |-> data[4],
                     hasPayload |-> hasPayload,
                     payloadType |-> typed.type ],
       payload |-> typed.payload ]

\* protocol.ts:41-139: a Buffer of at least four bytes.
parseFrame(data) ==
  LET hasPayload == Len(data) > HeaderLen
      payloadData == SubSeq(data, HeaderLen + 1, Len(data))
      typed ==
        IF ~hasPayload THEN [type |-> "unset", payload |-> Null]
        ELSE IF data[2] = WidgetUpdateB2
          THEN [type |-> "widget_update", payload |-> parseWidgetUpdateBytes(payloadData)]
        ELSE sniffPayload(payloadData)
  IN [ header  |-> [ t |-> "header",
                     byte1 |-> data[1], byte2 |-> data[2],
                     byte3 |-> data[3], byte4 |-> data[4],
                     hasPayload |-> hasPayload,
                     payloadType |-> typed.type ],
       payload |-> typed.payload ]

\* parseBinaryMessageBytes reading a short Buffer as if zeros followed it.
parseBinaryMessageBytesPadded(data) ==
  parseFrame(IF Len(data) < HeaderLen
               THEN data \o [i \in 1..(HeaderLen - Len(data)) |-> 0]
               ELSE data)

\* protocol.ts:35-140
parseBinaryMessageBytes(data) ==
  IF Len(data) < HeaderLen THEN NullResult ELSE parseFrame(data)

\* createBinaryMessageBytes with byte1 and byte2 exchanged.
createBinaryMessageBytesSwapped(payload, byte1, byte2, byte3, byte4) ==
  LET header == << byte2 % ByteMod, byte1 % ByteMod, byte3 % ByteMod, byte4 % ByteMod >> IN
  IF payload.t = "str" THEN header \o bufferFromUtf8(payload.s)
  ELSE IF payload # Null THEN header \o bufferFromUtf8(JSONstringify(payload))
  ELSE header

\* createBinaryMessageBytes serialising a null payload like any other value.
createBinaryMessageBytesNullAsJson(payload, byte1, byte2, byte3, byte4) ==
  LET header == << byte1 % ByteMod, byte2 % ByteMod, byte3 % ByteMod, byte4 % ByteMod >> IN
  IF payload.t = "str" THEN header \o bufferFromUtf8(payload.s)
  ELSE header \o bufferFromUtf8(JSONstringify(payload))

\* protocol.ts:194-214
createBinaryMessageBytes(payload, byte1, byte2, byte3, byte4) ==
  LET header == << byte1 % ByteMod, byte2 % ByteMod, byte3 % ByteMod, byte4 % ByteMod >> IN
  IF payload.t = "str" THEN header \o bufferFromUtf8(payload.s)
  ELSE IF payload # Null THEN header \o bufferFromUtf8(JSONstringify(payload))
  ELSE header

\* ---- utils/hash.ts
\* String.prototype.toLowerCase for the characters below U+0180: the ASCII
\* and Latin-1 capitals move up by 32, the capitals of Latin Extended-A go
\* to the next character, U+0130 becomes 'i' followed by U+0307.
RECURSIVE toLowerCase(_)
toLowerCase(str) ==
  IF str = <<>> THEN <<>>
  ELSE
    LET c == str[1]
        lower ==
          IF (c >= 65 /\ c <= 90) \/ (c >= 192 /\ c <= 222 /\ c # 215) THEN <<c + 32>>
          ELSE IF c = 304 THEN <<105, 775>>
          ELSE IF c = 376 THEN <<255>>
          ELSE IF c >= 256 /\ c <= 311 /\ c % 2 = 0 THEN <<c + 1>>
          ELSE IF c >= 313 /\ c <= 328 /\ c % 2 = 1 THEN <<c + 1>>
          ELSE IF c >= 330 /\ c <= 375 /\ c % 2 = 0 THEN <<c + 1>>
          ELSE IF c >= 377 /\ c <= 382 /\ c % 2 = 1 THEN <<c + 1>>
          ELSE <<c>>
    IN lower \o toLowerCase(Tail(str))

\* createHash('sha256').update(data).digest(): the digest is kept as a value
\* that stands for its 32 bytes and is different for different data.
sha256(data) == [sha256 |-> data]

\* digest.toString('base64'): a text that is different for different bytes.
toStringBase64(digest) == [base64 |-> digest]

\* calculateHash hashing the email as it was given.
calculateHashCaseKept(email, password) ==
  LET emailHash == sha256(bufferFromUtf8(email))
      combined == bufferFromUtf8(password) \o <<emailHash>>
  IN toStringBase64(sha256(combined))

\* hash.ts:22-40
calculateHash(email, password) ==
  LET emailHash == sha256(bufferFromUtf8(toLowerCase(email)))
      combined == bufferFromUtf8(password) \o <<emailHash>>
  IN toStringBase64(sha256(combined))

\* ------------------------------------------------------------------- state
VARIABLES
  pc,             \* where run() is suspended or about to continue
  justScan,       \* run()'s argument
  username,       \* constructor arguments (Null when not given)
  password,
  ws,             \* this.ws: "null", or the socket's state "open" / "closed"
  connectResult,  \* outcome of connect(): "none", "true", "false", "rejected"
  closeCalls,     \* calls of ws.close()
  error,          \* message of the error run() threw ("" for none)
  now,            \* the clock, ms since the session was constructed
  keepaliveTimer, \* this.keepaliveTimer
  messageCounter, \* this.messageCounter
  out,            \* frames handed to ws.send and written to the wire
  lastCall,       \* the latest sendMessage call: its byte4 argument, the
                  \* counter it found, its outcome and the frame written
  lastAutoB4,     \* b4 on the wire of the latest frame sent with b4 omitted
  user,           \* this.user
  devices,        \* this.devices
  devicePages,    \* this.devicePages
  widgetIdMap,    \* this.widgetIdMap
  widgetNameMap,  \* this.widgetNameMap
  registered,     \* 'message' handlers of listen() registered on the socket
  waiting,        \* the Promise.race of the current listen() is unsettled
  listenAt,       \* when the latest listen() was called
  listenFor,      \* its duration argument, in seconds
  deadline,       \* when the timer it started fires
  result,         \* what the latest listen() returned
  via,            \* branch that settled it: "message", "timeout", "nosocket"
  got,            \* the frame its message handler received
  ignored,        \* messages that were no Buffer and that it skipped
  staleInvoked,   \* a handler of an already returned listen() has been invoked
  nArrived,       \* binary frames the socket has emitted as 'message'
  nReturned,      \* binary frames returned by a listen() call
  lastIdx,        \* arrival index of the frame returned latest
  decoded,        \* telemetry payloads decoded by listen() after the handshake
  events,         \* 'widgetUpdate' events emitted to observers
  inOrder,        \* every listen() of the handshake so far returned the
                  \* server's answer to the request sent before it
  call,           \* the latest direct call of a codec function (SpecCodec)
  buffer,         \* the Buffer that call returned or was given
  parsed          \* what was parsed from buffer (Undefined before)

cfgVars    == <<justScan, username, password>>
dataVars   == <<user, devices, devicePages, widgetIdMap, widgetNameMap>>
sendVars   == <<messageCounter, out, lastCall, lastAutoB4>>
listenVars == <<registered, waiting, listenAt, listenFor, deadline, result, via, got,
                ignored>>
histVars   == <<staleInvoked, nArrived, nReturned, lastIdx, decoded, events, inOrder>>
endVars    == <<ws, closeCalls, error>>
codecVars  == <<call, buffer, parsed>>
sessionVars == <<pc, cfgVars, connectResult, now, keepaliveTimer, dataVars, sendVars,
                 listenVars, histVars, endVars>>
vars == <<sessionVars, codecVars>>

EmptyMap == [k \in {} |-> Null]
\* An omitted argument (undefined) is <<>>, a given one <<value>>.
Undefined == <<>>
\* No codec function has been called directly.
NoCodecCall ==
  [op |-> "none", returned |-> FALSE, payload |-> Null, bytes |-> <<>>, fields |-> <<>>]
NoCall == [byte4 |-> Undefined, counter |-> 0, outcome |-> "none", frame |-> NoFrame]

\* The session as its constructor leaves it (client.ts:60-71).
InitSession ==
  /\ pc = "idle"
  /\ justScan = FALSE
  \* 'user@example.com' and 'password123'
  /\ username \in {Null, Str(<<117, 115, 101, 114, 64, 101, 120, 97, 109, 112, 108, 101,
                                46, 99, 111, 109>>)}
  /\ password \in {Null, Str(<<112, 97, 115, 115, 119, 111, 114, 100, 49, 50, 51>>)}
  /\ ws = "null"
  /\ connectResult = "none"
  /\ closeCalls = 0
  /\ error = ""
  /\ now = 0
  /\ keepaliveTimer = 0
  /\ messageCounter = 0
  /\ out = <<>>
  /\ lastCall = NoCall
  /\ lastAutoB4 = Undefined
  /\ user = Null
  /\ devices = <<>>
  /\ devicePages = <<>>
  /\ widgetIdMap = EmptyMap
  /\ widgetNameMap = EmptyMap
  /\ registered = 0
  /\ waiting = FALSE
  /\ listenAt = 0
  /\ listenFor = 0
  /\ deadline = 0
  /\ result = NullResult
  /\ via = "none"
  /\ got = NoFrame
  /\ ignored = 0
  /\ staleInvoked = FALSE
  /\ nArrived = 0
  /\ nReturned = 0
  /\ lastIdx = 0
  /\ decoded = <<>>
  /\ events = <<>>
  /\ inOrder = TRUE

Init ==
  /\ InitSession
  /\ call = NoCodecCall
  /\ buffer = <<>>
  /\ parsed = Undefined

\* --------------------------------------------------------- server's frames
InitHdr      == <<1, 48, 0, 1>>
LoginHdr     == <<0, 2, 0, 3>>
TelemetryHdr == <<0, WidgetUpdateB2, 0, 0>>

HomeCharger  == [name |-> "Home Charger", deviceId |-> 89349]
\* A device descriptor without a deviceId.
Garage       == [name |-> "Garage"]
DeviceQueryDoc == [docs |-> << <<"DEVICE", HomeCharger>> >>]
NoDevicesDoc   == [docs |-> <<>>]
TwoDevicesDoc  == [docs |-> << <<"DEVICE", Garage>>, <<"DEVICE", HomeCharger>> >>]
ChargingPower == [id |-> 5, name |-> "Charging Power"]
DevicePageDoc ==
  [dashboard |-> [widgets |-> << [modules |-> << [displayDataStreams |-> <<ChargingPower>>] >>] >>]]
UserDoc == [user |-> [email |-> "user@example.com"]]

InitAnswer   == [hdr |-> InitHdr, body |-> JsonBody([status |-> "OK"])]
LoginAnswer  == [hdr |-> LoginHdr, body |-> JsonBody(UserDoc)]
QueryAnswer  == [hdr |-> <<1, 27, 0, 0>>, body |-> JsonBody(DeviceQueryDoc)]
\* The acknowledgement of Device Select: a header without a payload.
SelectAnswer == [hdr |-> <<0, 73, 1, 1>>, body |-> NoBody]
PageAnswer   == [hdr |-> <<1, 4, 1, 2>>, body |-> JsonBody(DevicePageDoc)]
Telemetry    == [hdr |-> TelemetryHdr, body |-> NulSepBody(<<"89349", "vw", "5", "241.29">>)]

ServerFrames ==
  { [hdr |-> <<1, 2>>, body |-> NoBody],
    InitAnswer, LoginAnswer, QueryAnswer, SelectAnswer, PageAnswer, Telemetry,
    [hdr |-> <<1, 27, 0, 0>>, body |-> JsonBody(NoDevicesDoc)],
    [hdr |-> <<1, 27, 0, 0>>, body |-> JsonBody(TwoDevicesDoc)] }

\* ------------------------------------------------------------- sendMessage
\* What ws.send does with the frame: an open socket writes it; a socket that
\* is no longer open throws or discards it.
WriteOutcomes == IF ws = "open" THEN {"written"} ELSE {"threw", "dropped"}

\* sendMessage advancing the counter on every call, pinned b4 or not.
sendMessageCountsPinned(payload, byte1, byte2, byte3, byte4, wr) ==
  IF ws = "null"
    THEN [counter |-> messageCounter, frame |-> NoFrame, outcome |-> "nosocket",
          raised |-> FALSE]
    ELSE
      LET actualByte4 == IF byte4 = Undefined THEN messageCounter ELSE byte4[1]
          message == createBinaryMessage(payload, byte1, byte2, byte3, actualByte4)
      IN [counter |-> messageCounter + 1,
          frame   |-> IF wr = "written" THEN message ELSE NoFrame,
          outcome |-> wr,
          raised  |-> FALSE]

\* sendMessage without its try/catch: an error of ws.send leaves it.
sendMessageUncaught(payload, byte1, byte2, byte3, byte4, wr) ==
  IF ws = "null"
    THEN [counter |-> messageCounter, frame |-> NoFrame, outcome |-> "nosocket",
          raised |-> FALSE]
    ELSE
      LET actualByte4 == IF byte4 = Undefined THEN messageCounter ELSE byte4[1]
          counter == IF byte4 = Undefined THEN messageCounter + 1 ELSE messageCounter
          message == createBinaryMessage(payload, byte1, byte2, byte3, actualByte4)
      IN [counter |-> counter,
          frame   |-> IF wr = "written" THEN message ELSE NoFrame,
          outcome |-> wr,
          raised  |-> (wr = "threw")]

\* client.ts:443-475.  byte4 is Undefined or <<b4>>; wr is what ws.send
\* does.  raised: whether an error leaves sendMessage.
sendMessage(payload, byte1, byte2, byte3, byte4, wr) ==
  IF ws = "null"
    THEN [counter |-> messageCounter, frame |-> NoFrame, outcome |-> "nosocket",
          raised |-> FALSE]
    ELSE
      LET actualByte4 == IF byte4 = Undefined THEN messageCounter ELSE byte4[1]
          counter == IF byte4 = Undefined THEN messageCounter + 1 ELSE messageCounter
          message == createBinaryMessage(payload, byte1, byte2, byte3, actualByte4)
      IN [counter |-> counter,
          frame   |-> IF wr = "written" THEN message ELSE NoFrame,
          outcome |-> wr,
          raised  |-> FALSE]

\* The effect of one sendMessage call on the session and on the wire.
Sent(s, byte4) ==
  /\ messageCounter' = s.counter
  /\ lastCall' = [byte4 |-> byte4, counter |-> messageCounter,
                  outcome |-> s.outcome, frame |-> s.frame]
  /\ lastAutoB4' = IF byte4 = Undefined /\ s.outcome = "written"
                     THEN <<s.frame.hdr[4]>> ELSE lastAutoB4

\* ------------------------------------------------------------------ listen
\* listen with the duration taken as milliseconds.
listenMillis(duration) ==
  /\ listenAt' = now
  /\ listenFor' = duration
  /\ got' = NoFrame
  /\ ignored' = 0
  /\ result' = NullResult
  /\ IF ws = "null"
       THEN /\ waiting' = FALSE
            /\ via' = "nosocket"
            /\ UNCHANGED <<registered, deadline>>
       ELSE /\ registered' = registered + 1
            /\ waiting' = TRUE
            /\ deadline' = now + duration
            /\ via' = "pending"

\* client.ts:382-426, up to the await: without a socket it returns at once,
\* otherwise it registers its message handler and starts its timer.
listen(duration) ==
  /\ listenAt' = now
  /\ listenFor' = duration
  /\ got' = NoFrame
  /\ ignored' = 0
  /\ result' = NullResult
  /\ IF ws = "null"
       THEN /\ waiting' = FALSE
            /\ via' = "nosocket"
            /\ UNCHANGED <<registered, deadline>>
       ELSE /\ registered' = registered + 1
            /\ waiting' = TRUE
            /\ deadline' = now + duration * 1000
            /\ via' = "pending"

\* run() is suspended in a listen(), or that listen() has settled and the
\* continuation has not run yet.
HandshakeWaits == {"init_wait", "login_wait", "query_wait", "select_wait", "page_wait"}
SteadyWaits == {"ka0_wait", "ka_wait", "listen20_wait"}
AwaitPcs == HandshakeWaits \cup SteadyWaits

\* The server's answer to the request run() sent before suspending at p.
Answer(p) ==
  CASE p = "init_wait"   -> InitAnswer
    [] p = "login_wait"  -> LoginAnswer
    [] p = "query_wait"  -> QueryAnswer
    [] p = "select_wait" -> SelectAnswer
    [] p = "page_wait"   -> PageAnswer
    [] OTHER             -> Telemetry

\* RunFinally without the call of close().
RunFinallyNoClose == UNCHANGED <<ws, closeCalls>>

\* client.ts:513-518
RunFinally ==
  IF ws # "null"
    THEN ws' = "closed" /\ closeCalls' = closeCalls + 1
    ELSE UNCHANGED <<ws, closeCalls>>

\* An error thrown inside run()'s try block.
Raise(msg) ==
  /\ pc' = "failed"
  /\ error' = msg
  /\ RunFinally

\* sendMessage followed by listen(duration), as every request does.
SendThenListen(payload, byte1, byte2, byte3, byte4, duration, nextPc) ==
  \E wr \in WriteOutcomes :
    LET s == sendMessage(payload, byte1, byte2, byte3, byte4, wr) IN
      /\ Sent(s, byte4)
      /\ out' = IF s.outcome = "written" THEN Append(out, s.frame) ELSE out
      /\ IF s.raised
           THEN Raise("Error sending message") /\ UNCHANGED listenVars
           ELSE listen(duration) /\ pc' = nextPc /\ UNCHANGED endVars

\* The socket's events are handled while run() is suspended in a listen(),
\* and right after the frame that settled it, before run() continues.
SocketEventDue == pc \in AwaitPcs /\ (waiting \/ via = "message")

\* client.ts:401-413: the socket emits 'message' with a binary frame; every
\* registered handler of listen() parses it, removes itself and resolves its
\* promise, which has an effect only for the listen() still waiting.
OnMessage(f) ==
  /\ ws = "open"
  /\ SocketEventDue
  /\ nArrived < MaxFrames
  /\ nArrived' = nArrived + 1
  /\ registered' = 0
  /\ staleInvoked' = (staleInvoked \/ registered > (IF waiting THEN 1 ELSE 0))
  /\ IF waiting
       THEN LET r == parseBinaryMessage(f) IN
            /\ waiting' = FALSE
            /\ result' = r
            /\ via' = "message"
            /\ got' = f
            /\ nReturned' = nReturned + 1
            /\ lastIdx' = nArrived + 1
            /\ decoded' = IF pc \in SteadyWaits /\ r.header # Null
                              /\ r.header.payloadType = "widget_update"
                            THEN Append(decoded, r.payload) ELSE decoded
            /\ inOrder' = (inOrder /\ (pc \in HandshakeWaits => f = Answer(pc)))
       ELSE UNCHANGED <<waiting, result, via, got, nReturned, lastIdx, decoded, inOrder>>
  /\ UNCHANGED <<pc, cfgVars, codecVars, connectResult, now, keepaliveTimer, dataVars,
                 sendVars, listenAt, listenFor, deadline, ignored, events, endVars>>

\* OnTextMessage with a handler that takes every message for a frame: the
\* string is too short to parse, and the listen() returns (null, null).
OnTextMessageResolves ==
  /\ ws = "open"
  /\ waiting
  /\ ignored < MaxTexts
  /\ ignored' = ignored + 1
  /\ registered' = 0
  /\ waiting' = FALSE
  /\ result' = NullResult
  /\ via' = "message"
  /\ UNCHANGED <<pc, cfgVars, codecVars, connectResult, now, keepaliveTimer, dataVars,
                 sendVars, listenAt, listenFor, deadline, got, histVars, endVars>>

\* client.ts:401-402 and 412: the socket emits 'message' with a value that
\* is not a Buffer (WebSocket.Data has a text message as a string); the
\* handler of the waiting listen() skips it.  With no listen() waiting no
\* handler is there to see it.
OnTextMessage ==
  /\ ws = "open"
  /\ waiting
  /\ ignored < MaxTexts
  /\ ignored' = ignored + 1
  /\ UNCHANGED <<pc, cfgVars, codecVars, connectResult, now, keepaliveTimer, dataVars,
                 sendVars, registered, waiting, listenAt, listenFor, deadline, result,
                 via, got, histVars, endVars>>

\* client.ts:421-424: the timer of the waiting listen() fires.
OnTimeout ==
  /\ waiting
  /\ now >= deadline
  /\ waiting' = FALSE
  /\ result' = NullResult
  /\ via' = "timeout"
  /\ inOrder' = (inOrder /\ pc \notin HandshakeWaits)
  /\ UNCHANGED <<pc, cfgVars, codecVars, connectResult, now, keepaliveTimer, dataVars,
                 sendVars, registered, listenAt, listenFor, deadline, got, ignored,
                 staleInvoked, nArrived, nReturned, lastIdx, decoded, events, endVars>>

\* Time passes while connect() or a listen() is awaited; a due timer fires
\* before the clock moves on.
Tick ==
  /\ now < MaxTicks * TickMs
  /\ pc = "connecting" \/ (waiting /\ now < deadline)
  /\ now' = now + TickMs
  /\ UNCHANGED <<pc, cfgVars, codecVars, connectResult, keepaliveTimer, dataVars, sendVars,
                 listenVars, histVars, endVars>>

\* client.ts:134-136: the connection drops; the client only logs it.
OnClose ==
  /\ ws = "open"
  /\ SocketEventDue
  /\ ws' = "closed"
  /\ UNCHANGED <<pc, cfgVars, codecVars, connectResult, now, keepaliveTimer, dataVars,
                 sendVars, listenVars, histVars, closeCalls, error>>

\* --------------------------------------------------- extractWidgetMappings
RECURSIVE Flatten(_)
Flatten(ss) == IF ss = <<>> THEN <<>> ELSE Head(ss) \o Flatten(Tail(ss))

\* Map.set
MapSet(m, k, v) == [x \in DOMAIN m \cup {k} |-> IF x = k THEN v ELSE m[x]]

\* client.ts:349-358: the streams in the order the three loops visit them.
DisplayDataStreams(widgets) ==
  Flatten([i \in 1..Len(widgets) |->
    Flatten([j \in 1..Len(widgets[i].modules) |->
      widgets[i].modules[j].displayDataStreams])])

RECURSIVE SetById(_, _)
SetById(m, streams) ==
  IF streams = <<>> THEN m
  ELSE SetById(MapSet(m, ToString(Head(streams).id), Head(streams)), Tail(streams))

\* SetByName keeping the first stream registered under a name.
RECURSIVE SetByNameFirstWins(_, _)
SetByNameFirstWins(m, streams) ==
  IF streams = <<>> THEN m
  ELSE SetByNameFirstWins(
         IF Head(streams).name \in DOMAIN m THEN m
           ELSE MapSet(m, Head(streams).name, Head(streams)),
         Tail(streams))

RECURSIVE SetByName(_, _)
SetByName(m, streams) ==
  IF streams = <<>> THEN m
  ELSE SetByName(MapSet(m, Head(streams).name, Head(streams)), Tail(streams))

\* devicePage.dashboard.widgets can be read
HasDashboard(devicePage) ==
  devicePage.t = "obj" /\ "dashboard" \in DOMAIN devicePage.v

\* client.ts:330-373, for a page that has a dashboard: the two maps after it.
extractWidgetMappings(deviceIdx, devicePage) ==
  LET streams == DisplayDataStreams(devicePage.v.dashboard.widgets)
      idMap   == IF deviceIdx \in DOMAIN widgetIdMap
                   THEN widgetIdMap[deviceIdx] ELSE EmptyMap
      nameMap == IF deviceIdx \in DOMAIN widgetNameMap
                   THEN widgetNameMap[deviceIdx] ELSE EmptyMap
  IN [ widgetIdMap   |-> MapSet(widgetIdMap, deviceIdx, SetById(idMap, streams)),
       widgetNameMap |-> MapSet(widgetNameMap, deviceIdx, SetByName(nameMap, streams)) ]

\* ----------------------------------------------------------------- connect
\* client.ts:484-485: run(justScan) calls connect().
Run ==
  /\ pc = "idle"
  /\ \E js \in BOOLEAN : justScan' = js
  /\ pc' = "connecting"
  /\ UNCHANGED <<username, password, codecVars, connectResult, now, keepaliveTimer, dataVars,
                 sendVars, listenVars, histVars, endVars>>

\* client.ts:115-127: the socket is created and emits 'open'.
ConnectOpen ==
  /\ pc = "connecting"
  /\ ws' = "open"
  /\ connectResult' = "true"
  /\ pc' = "init"
  /\ UNCHANGED <<cfgVars, codecVars, now, keepaliveTimer, dataVars, sendVars, listenVars,
                 histVars, closeCalls, error>>

\* ConnectFalse with run() going on to the handshake.
ConnectFalseContinues ==
  /\ pc = "connecting"
  /\ connectResult' = "false"
  /\ pc' = "init"
  /\ UNCHANGED <<cfgVars, codecVars, now, keepaliveTimer, dataVars, sendVars, listenVars,
                 histVars, endVars>>

\* client.ts:138-141 and 485-487: the HTTP request or the constructor throws;
\* connect() returns false and run() returns.
ConnectFalse ==
  /\ pc = "connecting"
  /\ connectResult' = "false"
  /\ pc' = "done"
  /\ UNCHANGED <<cfgVars, codecVars, now, keepaliveTimer, dataVars, sendVars, listenVars,
                 histVars, endVars>>

\* ConnectReject with connect() called inside run()'s try block.
ConnectRejectInsideTry ==
  /\ pc = "connecting"
  /\ ws' = "closed"
  /\ closeCalls' = closeCalls + 1
  /\ connectResult' = "rejected"
  /\ pc' = "failed"
  /\ error' = "WebSocket error"
  /\ UNCHANGED <<cfgVars, codecVars, now, keepaliveTimer, dataVars, sendVars, listenVars,
                 histVars>>

\* client.ts:129-132: the created socket emits 'error' before 'open'; the
\* promise rejects and run() throws outside its try block.
ConnectReject ==
  /\ pc = "connecting"
  /\ ws' = "closed"
  /\ connectResult' = "rejected"
  /\ pc' = "failed"
  /\ error' = "WebSocket error"
  /\ UNCHANGED <<cfgVars, codecVars, now, keepaliveTimer, dataVars, sendVars, listenVars,
                 histVars, closeCalls>>

\* --------------------------------------------------------------- handshake
InitPayload == Obj([clientType |-> "web", version |-> "0.98.2", locale |-> "en_US"])

\* client.ts:166-178
IssueInitialization ==
  /\ pc = "init"
  /\ SendThenListen(InitPayload, 1, 48, 0, <<1>>, DefaultListenS, "init_wait")
  /\ UNCHANGED <<cfgVars, codecVars, connectResult, now, keepaliveTimer, dataVars, histVars>>

\* IssueInitializationResume without the check of the payload.
IssueInitializationResumeNoCheck ==
  /\ pc = "init_wait"
  /\ ~waiting
  /\ pc' = "login"
  /\ UNCHANGED <<cfgVars, codecVars, connectResult, now, keepaliveTimer, dataVars, sendVars,
                 listenVars, histVars, endVars>>

\* client.ts:178-181
IssueInitializationResume ==
  /\ pc = "init_wait"
  /\ ~waiting
  /\ IF result.payload = Null
       THEN Raise("Init message failed")
       ELSE pc' = "login" /\ UNCHANGED endVars
  /\ UNCHANGED <<cfgVars, codecVars, connectResult, now, keepaliveTimer, dataVars, sendVars,
                 listenVars, histVars>>


\* Login without the test of username and password.
LoginNoCheck ==
  /\ pc = "login"
  /\ SendThenListen(
       Obj([email |-> username, hash |-> password,
            clientType |-> "web", version |-> "0.98.2", locale |-> "en_US"]),
       0, 2, 0, <<3>>, DefaultListenS, "login_wait")
  /\ UNCHANGED <<cfgVars, codecVars, connectResult, now, keepaliveTimer, dataVars, histVars>>

\* client.ts:192-214
Login ==
  /\ pc = "login"
  /\ IF username = Null \/ password = Null
       THEN Raise("User and password must be set") /\ UNCHANGED <<sendVars, listenVars>>
       ELSE SendThenListen(
              Obj([email |-> username.s, hash |-> calculateHash(username.s, password.s),
                   clientType |-> "web", version |-> "0.98.2", locale |-> "en_US"]),
              0, 2, 0, <<3>>, DefaultListenS, "login_wait")
  /\ UNCHANGED <<cfgVars, codecVars, connectResult, now, keepaliveTimer, dataVars, histVars>>

\* LoginResume without the assignment of this.user.
LoginResumeNoStore ==
  /\ pc = "login_wait"
  /\ ~waiting
  /\ user' = user
  /\ IF result.payload = Null
       THEN Raise("Did not get back user payload")
       ELSE pc' = "query" /\ UNCHANGED endVars
  /\ UNCHANGED <<cfgVars, codecVars, connectResult, now, keepaliveTimer, devices, devicePages,
                 widgetIdMap, widgetNameMap, sendVars, listenVars, histVars>>

\* client.ts:214-219
LoginResume ==
  /\ pc = "login_wait"
  /\ ~waiting
  /\ IF result.payload = Null
       THEN Raise("Did not get back user payload") /\ user' = user
       ELSE pc' = "query" /\ user' = result.payload /\ UNCHANGED endVars
  /\ UNCHANGED <<cfgVars, codecVars, connectResult, now, keepaliveTimer, devices, devicePages,
                 widgetIdMap, widgetNameMap, sendVars, listenVars, histVars>>

DeviceQueryPayload ==
  Obj([docType |-> "DEVICE", mode |-> "MATCH_ALL", viewType |-> "LIST",
       filters |-> << [type |-> "SUB_SEGMENT", filters |-> <<>>,
                       mode |-> "MATCH_ANY", isCurrent |-> TRUE] >>,
       offset |-> 0, limit |-> 17, order |-> "ASC", sortBy |-> "Name"])

\* QueryDevices with b4 pinned to 0 instead of taken from the counter.
QueryDevicesPinnedB4 ==
  /\ pc = "query"
  /\ SendThenListen(DeviceQueryPayload, 1, 27, 0, <<0>>, DefaultListenS, "query_wait")
  /\ UNCHANGED <<cfgVars, codecVars, connectResult, now, keepaliveTimer, dataVars, histVars>>

\* client.ts:224-252
QueryDevices ==
  /\ pc = "query"
  /\ SendThenListen(DeviceQueryPayload, 1, 27, 0, Undefined, DefaultListenS, "query_wait")
  /\ UNCHANGED <<cfgVars, codecVars, connectResult, now, keepaliveTimer, dataVars, histVars>>

\* deviceResponse.docs can be iterated
HasDocs(payload) == payload.t = "obj" /\ "docs" \in DOMAIN payload.v

\* QueryDevicesResume pushing the devices in reverse order.
QueryDevicesResumeReversed ==
  /\ pc = "query_wait"
  /\ ~waiting
  /\ IF HasDocs(result.payload)
       THEN LET docs == result.payload.v.docs IN
            /\ devices' = devices \o [i \in 1..Len(docs) |-> docs[Len(docs) + 1 - i][2]]
            /\ pc' = "select"
            /\ UNCHANGED endVars
       ELSE Raise("TypeError") /\ devices' = devices
  /\ UNCHANGED <<cfgVars, codecVars, connectResult, now, keepaliveTimer, user, devicePages,
                 widgetIdMap, widgetNameMap, sendVars, listenVars, histVars>>

\* client.ts:252-262: reading docs of a payload that has none is a TypeError.
QueryDevicesResume ==
  /\ pc = "query_wait"
  /\ ~waiting
  /\ IF HasDocs(result.payload)
       THEN LET docs == result.payload.v.docs IN
            /\ devices' = devices \o [i \in 1..Len(docs) |-> docs[i][2]]
            /\ pc' = "select"
            /\ UNCHANGED endVars
       ELSE Raise("TypeError") /\ devices' = devices
  /\ UNCHANGED <<cfgVars, codecVars, connectResult, now, keepaliveTimer, user, devicePages,
                 widgetIdMap, widgetNameMap, sendVars, listenVars, histVars>>

\* SelectDevice with the two error messages exchanged.
SelectDeviceMessagesSwapped ==
  /\ pc = "select"
  /\ IF Len(devices) = 0
       THEN Raise("Device ID was not set")
     ELSE IF "deviceId" \notin DOMAIN devices[1]
       THEN Raise("No devices found")
     ELSE pc' = "status" /\ UNCHANGED endVars
  /\ UNCHANGED <<cfgVars, codecVars, connectResult, now, keepaliveTimer, dataVars, sendVars,
                 listenVars, histVars>>

\* client.ts:494-502
SelectDevice ==
  /\ pc = "select"
  /\ IF Len(devices) = 0
       THEN Raise("No devices found")
     ELSE IF "deviceId" \notin DOMAIN devices[1]
       THEN Raise("Device ID was not set")
     ELSE pc' = "status" /\ UNCHANGED endVars
  /\ UNCHANGED <<cfgVars, codecVars, connectResult, now, keepaliveTimer, dataVars, sendVars,
                 listenVars, histVars>>

\* client.ts:270-293, called with devices[0].deviceId
RequestChargingStatus ==
  /\ pc = "status"
  /\ IF ws = "null"
       THEN Raise("Cannot request charging status before websocket is created")
            /\ UNCHANGED <<sendVars, listenVars>>
       ELSE SendThenListen(Str(ToString(devices[1].deviceId)), 0, 73, 1, Undefined,
                           DefaultListenS, "select_wait")
  /\ UNCHANGED <<cfgVars, codecVars, connectResult, now, keepaliveTimer, dataVars, histVars>>

\* RequestChargingStatusPage without the await of the first listen().
RequestChargingStatusPageNoAwait ==
  /\ pc = "select_wait"
  /\ SendThenListen(
       Obj([pageId |-> "17948", deviceId |-> ToString(devices[1].deviceId),
            dashboardPageId |-> Null]),
       1, 4, 1, Undefined, DefaultListenS, "page_wait")
  /\ UNCHANGED <<cfgVars, codecVars, connectResult, now, keepaliveTimer, dataVars, histVars>>

\* client.ts:293-310: the acknowledgement is logged, whatever it is.
RequestChargingStatusPage ==
  /\ pc = "select_wait"
  /\ ~waiting
  /\ SendThenListen(
       Obj([pageId |-> "17948", deviceId |-> ToString(devices[1].deviceId),
            dashboardPageId |-> Null]),
       1, 4, 1, Undefined, DefaultListenS, "page_wait")
  /\ UNCHANGED <<cfgVars, codecVars, connectResult, now, keepaliveTimer, dataVars, histVars>>

\* client.ts:310-311 and 504: the payload, whatever it is, joins devicePages.
RequestChargingStatusResume ==
  /\ pc = "page_wait"
  /\ ~waiting
  /\ devicePages' = Append(devicePages, result.payload)
  /\ pc' = "extract"
  /\ UNCHANGED <<cfgVars, codecVars, connectResult, now, keepaliveTimer, user, devices,
                 widgetIdMap, widgetNameMap, sendVars, listenVars, histVars, endVars>>

\* ExtractWidgetMappings filling device slot 1 instead of slot 0.
ExtractWidgetMappingsSlotOne ==
  /\ pc = "extract"
  /\ IF HasDashboard(devicePages[1])
       THEN LET m == extractWidgetMappings(1, devicePages[1]) IN
            /\ widgetIdMap' = m.widgetIdMap
            /\ widgetNameMap' = m.widgetNameMap
            /\ pc' = "ka0"
            /\ UNCHANGED endVars
       ELSE Raise("TypeError") /\ UNCHANGED <<widgetIdMap, widgetNameMap>>
  /\ UNCHANGED <<cfgVars, codecVars, connectResult, now, keepaliveTimer, user, devices,
                 devicePages, sendVars, listenVars, histVars>>

\* client.ts:505: extractWidgetMappings(0, this.devicePages[0]); reading the
\* dashboard of a page that has none is a TypeError.
ExtractWidgetMappings ==
  /\ pc = "extract"
  /\ IF HasDashboard(devicePages[1])
       THEN LET m == extractWidgetMappings(0, devicePages[1]) IN
            /\ widgetIdMap' = m.widgetIdMap
            /\ widgetNameMap' = m.widgetNameMap
            /\ pc' = "ka0"
            /\ UNCHANGED endVars
       ELSE Raise("TypeError") /\ UNCHANGED <<widgetIdMap, widgetNameMap>>
  /\ UNCHANGED <<cfgVars, codecVars, connectResult, now, keepaliveTimer, user, devices,
                 devicePages, sendVars, listenVars, histVars>>

\* ------------------------------------------------------------ steady state
\* keepalive without the reset of keepaliveTimer.
keepaliveNoReset ==
  /\ pc \in {"ka0", "ka"}
  /\ LET elapsed == now - keepaliveTimer IN
     IF elapsed >= KeepaliveMs
       THEN /\ keepaliveTimer' = keepaliveTimer
            /\ SendThenListen(Null, 0, 6, 0, Undefined, DefaultListenS,
                              IF pc = "ka0" THEN "ka0_wait" ELSE "ka_wait")
       ELSE /\ pc' = (IF pc = "ka0" THEN "while" ELSE "listen20")
            /\ UNCHANGED <<keepaliveTimer, sendVars, listenVars, endVars>>
  /\ UNCHANGED <<cfgVars, codecVars, connectResult, now, dataVars, histVars>>

\* client.ts:149-159, called at client.ts:506 (pc "ka0") and 510 (pc "ka")
keepalive ==
  /\ pc \in {"ka0", "ka"}
  /\ LET elapsed == now - keepaliveTimer IN
     IF elapsed >= KeepaliveMs
       THEN /\ keepaliveTimer' = now
            /\ SendThenListen(Null, 0, 6, 0, Undefined, DefaultListenS,
                              IF pc = "ka0" THEN "ka0_wait" ELSE "ka_wait")
       ELSE /\ pc' = (IF pc = "ka0" THEN "while" ELSE "listen20")
            /\ UNCHANGED <<keepaliveTimer, sendVars, listenVars, endVars>>
  /\ UNCHANGED <<cfgVars, codecVars, connectResult, now, dataVars, histVars>>

\* client.ts:159-161: the drained response is discarded.
keepaliveResume ==
  /\ pc \in {"ka0_wait", "ka_wait"}
  /\ ~waiting
  /\ pc' = (IF pc = "ka0_wait" THEN "while" ELSE "listen20")
  /\ UNCHANGED <<cfgVars, codecVars, connectResult, now, keepaliveTimer, dataVars, sendVars,
                 listenVars, histVars, endVars>>

\* client.ts:509 and 513-518: while (!justScan); leaving the loop returns.
While ==
  /\ pc = "while"
  /\ IF justScan
       THEN pc' = "done" /\ RunFinally /\ error' = error
       ELSE pc' = "ka" /\ UNCHANGED endVars
  /\ UNCHANGED <<cfgVars, codecVars, connectResult, now, keepaliveTimer, dataVars, sendVars,
                 listenVars, histVars>>

\* client.ts:511: listen(20)
SteadyListen ==
  /\ pc = "listen20"
  /\ listen(SteadyListenS)
  /\ pc' = "listen20_wait"
  /\ UNCHANGED <<cfgVars, codecVars, connectResult, now, keepaliveTimer, dataVars, sendVars,
                 histVars, endVars>>

\* SteadyListenResume leaving the loop when the listen() timed out.
SteadyListenResumeEndsOnTimeout ==
  /\ pc = "listen20_wait"
  /\ ~waiting
  /\ IF result.payload = Null
       THEN pc' = "done" /\ RunFinally /\ error' = error
       ELSE pc' = "while" /\ UNCHANGED endVars
  /\ UNCHANGED <<cfgVars, codecVars, connectResult, now, keepaliveTimer, dataVars, sendVars,
                 listenVars, histVars>>

\* client.ts:511-512: the result is discarded and the loop goes round.
SteadyListenResume ==
  /\ pc = "listen20_wait"
  /\ ~waiting
  /\ pc' = "while"
  /\ UNCHANGED <<cfgVars, codecVars, connectResult, now, keepaliveTimer, dataVars, sendVars,
                 listenVars, histVars, endVars>>

\* ------------------------------------------------------------ specification
\* The steps of run().
Program ==
  \/ Run
  \/ ConnectOpen
  \/ ConnectFalse
  \/ ConnectReject
  \/ IssueInitialization
  \/ IssueInitializationResume
  \/ Login
  \/ LoginResume
  \/ QueryDevices
  \/ QueryDevicesResume
  \/ SelectDevice
  \/ RequestChargingStatus
  \/ RequestChargingStatusPage
  \/ RequestChargingStatusResume
  \/ ExtractWidgetMappings
  \/ keepalive
  \/ keepaliveResume
  \/ While
  \/ SteadyListen
  \/ SteadyListenResume

Next ==
  \/ Program
  \/ \E f \in ServerFrames : OnMessage(f)
  \/ OnTimeout
  \/ Tick
  \/ OnClose

Spec == Init /\ [][Next]_vars

\* The server may send text messages as well.  They change nothing the
\* code reads, so Spec leaves them out; SpecText has them.
NextText ==
  \/ Next
  \/ OnTextMessage

SpecText == Init /\ [][NextText]_vars

\* ---------------------------------------------- the session used directly
\* sendMessage is a public method: SpecSend calls it on a session, before
\* and after connect() and after the connection dropped, as often as the
\* bound allows.  The log of the wire is not kept here: lastCall holds the
\* frame written.
PinnedB4 == {<<1>>, <<3>>}

ApiConnect ==
  /\ ws = "null"
  /\ ws' = "open"
  /\ connectResult' = "true"
  /\ UNCHANGED <<pc, cfgVars, codecVars, now, keepaliveTimer, dataVars, sendVars, listenVars,
                 histVars, closeCalls, error>>

ApiDrop ==
  /\ ws = "open"
  /\ ws' = "closed"
  /\ UNCHANGED <<pc, cfgVars, codecVars, connectResult, now, keepaliveTimer, dataVars, sendVars,
                 listenVars, histVars, closeCalls, error>>

ApiSendMessage(byte4) ==
  /\ messageCounter < MaxSends
  /\ \E wr \in WriteOutcomes :
       LET s == sendMessage(Null, 0, 6, 0, byte4, wr) IN
         /\ Sent(s, byte4)
         /\ out' = out
         /\ error' = IF s.raised THEN "Error sending message" ELSE error
  /\ UNCHANGED <<pc, cfgVars, codecVars, connectResult, now, keepaliveTimer, dataVars,
                 listenVars, histVars, ws, closeCalls>>

NextSend ==
  \/ ApiConnect
  \/ ApiDrop
  \/ ApiSendMessage(Undefined)
  \/ \E b \in PinnedB4 : ApiSendMessage(b)

InitSend == Init /\ username # Null /\ password # Null

SpecSend == InitSend /\ [][NextSend]_vars

\* ------------------------------------------- extractWidgetMappings alone
\* extractWidgetMappings is a public method: SpecExtract calls it with the
\* pages below for the device slots 0 and 1, again and again.  As run()
\* does, the caller keeps the page in the slot's place of devicePages, so
\* devicePages[d + 1] is the page extracted latest into slot d.
Voltage      == [id |-> 5, name |-> "Voltage"]
SessionPower == [id |-> 7, name |-> "Charging Power"]
\* Two of them share an id, two share a name.
ExtractStreams == {ChargingPower, Voltage, SessionPower}

OneModule(streams) ==
  Obj([dashboard |-> [widgets |-> << [modules |-> << [displayDataStreams |-> streams] >>] >>]])
TwoModules(a, b) ==
  Obj([dashboard |-> [widgets |-> << [modules |-> << [displayDataStreams |-> a],
                                                     [displayDataStreams |-> b] >>] >>]])
TwoWidgets(a, b) ==
  Obj([dashboard |-> [widgets |-> << [modules |-> << [displayDataStreams |-> a] >>],
                                     [modules |-> << [displayDataStreams |-> b] >>] >>]])

ExtractPages ==
  {OneModule(<<>>)}
    \cup {OneModule(<<a>>) : a \in ExtractStreams}
    \cup {OneModule(<<a, b>>) : a, b \in ExtractStreams}
    \cup {TwoModules(<<a>>, <<b>>) : a, b \in ExtractStreams}
    \cup {TwoWidgets(<<a>>, <<b>>) : a, b \in ExtractStreams}

ExtractSlots == {0, 1}

ApiExtractWidgetMappings(deviceIdx, devicePage) ==
  /\ deviceIdx <= Len(devicePages)
  /\ devicePages' = IF deviceIdx = Len(devicePages)
                      THEN Append(devicePages, devicePage)
                      ELSE [devicePages EXCEPT ![deviceIdx + 1] = devicePage]
  /\ LET m == extractWidgetMappings(deviceIdx, devicePage) IN
       /\ widgetIdMap' = m.widgetIdMap
       /\ widgetNameMap' = m.widgetNameMap
  /\ UNCHANGED <<pc, cfgVars, codecVars, connectResult, now, keepaliveTimer, user, devices,
                 sendVars, listenVars, histVars, endVars>>

NextExtract ==
  \E deviceIdx \in ExtractSlots, devicePage \in ExtractPages :
    ApiExtractWidgetMappings(deviceIdx, devicePage)

SpecExtract == InitSend /\ [][NextExtract]_vars

\* ------------------------------------------------------- runs without end
\* run() loops until the process ends, so the clock, the message counter,
\* the handlers left on the socket and the log of the wire grow without
\* bound.  SpecLive keeps them in a finite range without changing what the
\* code can observe: the clock's origin moves forward (the code reads only
\* now - keepaliveTimer >= 15000 and the time left to a deadline), the
\* counter is reduced by 256 (the wire carries it modulo 256), the handlers
\* are counted up to MaxHandlers, and the log drops its oldest keepalive.
Folded ==
  /\ now < MaxTicks * TickMs
  /\ messageCounter < MaxSends
  /\ registered <= MaxHandlers
  /\ Len(out) <= MaxLog

Fold ==
  /\ ~Folded
  /\ LET shift == IF now >= MaxTicks * TickMs THEN TickMs ELSE 0
         wrap  == IF messageCounter >= MaxSends THEN ByteMod ELSE 0
         Floor(t, lo) == IF t < lo THEN lo ELSE t
         oldest == CHOOSE i \in DOMAIN out :
                     /\ out[i].hdr[2] = 6
                     /\ \A j \in 1..(i - 1) : out[j].hdr[2] # 6
     IN /\ now' = now - shift
        /\ keepaliveTimer' = Floor(keepaliveTimer - shift, now - shift - KeepaliveMs)
        /\ listenAt' = Floor(listenAt - shift, 0)
        /\ deadline' = Floor(deadline - shift, 0)
        /\ messageCounter' = messageCounter - wrap
        /\ lastCall' = [lastCall EXCEPT !.counter = Floor(@ - wrap, 0)]
        /\ registered' = IF registered > MaxHandlers THEN MaxHandlers ELSE registered
        /\ out' = IF Len(out) > MaxLog
                    THEN SubSeq(out, 1, oldest - 1) \o SubSeq(out, oldest + 1, Len(out))
                    ELSE out
  /\ UNCHANGED <<pc, cfgVars, codecVars, connectResult, dataVars, lastAutoB4, waiting, listenFor,
                 result, via, got, ignored, histVars, endVars>>

\* The server of SpecLive answers each request with the frame that belongs
\* to it, or not at all, and pushes telemetry after the handshake; the
\* connection drops early in the run or never.
NextLive ==
  \/ Folded /\ Program
  \/ Folded /\ OnMessage(Answer(pc))
  \/ Folded /\ OnTimeout
  \/ Folded /\ Tick
  \/ Folded /\ messageCounter <= MaxDropAt /\ OnClose
  \/ Fold

\* The event loop runs a continuation that is ready and a timer that is due;
\* time does not stop.
SpecLive == InitSend /\ [][NextLive]_vars /\ WF_vars(NextLive)

\* ------------------------------------------------------- the codec alone
\* The exported functions of utils/protocol.ts and utils/hash.ts are pure:
\* SpecCodec starts with one call of one of them, drawn from the headers,
\* payloads, Buffers and credentials below, and its actions compute what
\* the call returns.
\* Bytes of every class the codec tells apart: NUL and BS (controls), TAB
\* (printable, JSON white space), '"', '1', 'A', '{', '}', DEL, 0x81 and
\* 0xC1 (top bit set over a control and over 'A'), and 0xC3 0xA9 (the UTF-8
\* encoding of U+00E9).
CodecAlphabet == {0, 8, 9, 34, 49, 65, 123, 125, 127, 129, 193, 195, 169}
BuffersUpTo(n) == UNION { [1..k -> CodecAlphabet] : k \in 0..n }

HeaderByteValues == {0, WidgetUpdateB2, 255}

\* 'test'
TestStr == <<116, 101, 115, 116>>
\* { key: 'value', number: 42 }
TestMap ==
  Obj(<< << <<107, 101, 121>>, Str(<<118, 97, 108, 117, 101>>) >>,
         << <<110, 117, 109, 98, 101, 114>>, Num(FALSE, 42, <<>>) >> >>)
\* { a: 'a"\\\né' }: a quote, a backslash, a line feed and U+00E9.
QuotedMap == Obj(<< <<(<<97>>), Str(<<97, 34, 92, 10, 233>>)>> >>)
\* { a: [null, true, -1.5], b: {} }
NestedMap ==
  Obj(<< <<(<<97>>), Arr(<<Null, Bool(TRUE), Num(TRUE, 1, <<53>>)>>)>>,
         <<(<<98>>), Obj(<<>>)>> >>)
\* null, '', 'test', U+00E9 alone, {} and the three maps.
CreatePayloads ==
  {Null, Str(<<>>), Str(TestStr), Str(<<233>>), Obj(<<>>), TestMap, QuotedMap, NestedMap}

\* '89349', 'vw', '5', '241.29': the fields of the telemetry frame of the
\* tests.
TestTelemetry ==
  << <<56, 57, 51, 52, 57>>, <<118, 119>>, <<53>>, <<50, 52, 49, 46, 50, 57>> >>
\* Fields a telemetry payload is put together from: none holds a NUL.
TelemetryFields ==
  {<<>>, <<193>>, <<65, 34>>} \cup {TestTelemetry[i] : i \in 1..4}
joinNul(d, x, w, v) == d \o <<0>> \o x \o <<0>> \o w \o <<0>> \o v

\* n bytes, 'A' but for a NUL at the end.
LongPayload(n) == [i \in 1..n |-> IF i = n THEN 0 ELSE 65]
\* Payloads of the tests and of the classes the bytes above do not spell:
\* a telemetry payload, 50 and 51 bytes, two JSON maps, '241.29', 'true',
\* 'null', ' 1 ' and 'test-string'.
SpecialPayloads ==
  { joinNul(TestTelemetry[1], TestTelemetry[2], TestTelemetry[3], TestTelemetry[4]),
    LongPayload(PreviewLen), LongPayload(PreviewLen + 1),
    bufferFromUtf8(JSONstringify(TestMap)),
    bufferFromUtf8(JSONstringify(QuotedMap)),
    TestTelemetry[4],
    <<116, 114, 117, 101>>, <<110, 117, 108, 108>>, <<32, 49, 32>>,
    <<116, 101, 115, 116, 45, 115, 116, 114, 105, 110, 103>> }
CodecPayloads == BuffersUpTo(MaxPayloadLen) \cup SpecialPayloads

\* The second byte is 0x14 in one; in another every byte but the second is.
ParseHeaders ==
  { <<0, 0, 0, 0>>, <<0, WidgetUpdateB2, 0, 0>>,
    <<WidgetUpdateB2, 255, WidgetUpdateB2, WidgetUpdateB2>> }
\* Buffers too short for a header, and headers with or without a payload.
ParseBuffers ==
  BuffersUpTo(HeaderLen - 1) \cup { h \o p : h \in ParseHeaders, p \in CodecPayloads }

\* Emails and passwords calculateHash is called with: 'A', 'a', '@' and
\* U+0130 in every arrangement, and the two emails of the tests
\* ('Test@Example.Com', 'test@example.com'); passwords that differ in case
\* and in white space only ('', 'pw', 'PW', 'Pw', ' pw').
HashEmails ==
  UNION { [1..k -> {65, 97, 64, 304}] : k \in 0..MaxEmailLen }
    \cup { <<84, 101, 115, 116, 64, 69, 120, 97, 109, 112, 108, 101, 46, 67, 111, 109>>,
           <<116, 101, 115, 116, 64, 101, 120, 97, 109, 112, 108, 101, 46, 99, 111, 109>> }
HashPasswords == {<<>>, <<112, 119>>, <<80, 87>>, <<80, 119>>, <<32, 112, 119>>}

\* The calls SpecCodec starts from: the function called, its arguments
\* (the payload and header bytes of createBinaryMessage, or the Buffer of
\* the two parsers, which for "parseTelemetry" is put together from the
\* four fields), nothing returned yet.
CodecCall(op, payload, bytes, fields) ==
  [op |-> op, returned |-> FALSE, payload |-> payload, bytes |-> bytes, fields |-> fields]

InitCodec ==
  /\ InitSession
  /\ username # Null /\ password # Null
  /\ parsed = Undefined
  /\ \/ /\ \E payload \in CreatePayloads :
             \E byte1 \in HeaderByteValues, byte2 \in HeaderByteValues,
                byte3 \in HeaderByteValues, byte4 \in HeaderByteValues :
               call = CodecCall("create", payload, <<byte1, byte2, byte3, byte4>>, <<>>)
        /\ buffer = <<>>
     \/ /\ call = CodecCall("parse", Null, <<>>, <<>>)
        /\ buffer \in ParseBuffers
     \/ /\ call = CodecCall("parseWidgetUpdate", Null, <<>>, <<>>)
        /\ buffer \in CodecPayloads
     \/ \E d \in TelemetryFields, x \in TelemetryFields,
           w \in TelemetryFields, v \in TelemetryFields :
          /\ call = CodecCall("parseTelemetry", Null, <<>>, <<d, x, w, v>>)
          /\ buffer = joinNul(d, x, w, v)
     \/ /\ \E email \in HashEmails, pass \in HashPasswords :
             call = CodecCall("calculateHash", Null, <<>>, <<email, pass>>)
        /\ buffer = <<>>

ApiCreateBinaryMessage ==
  /\ call.op = "create" /\ ~call.returned
  /\ call' = [call EXCEPT !.returned = TRUE]
  /\ buffer' = createBinaryMessageBytes(call.payload, call.bytes[1], call.bytes[2],
                                        call.bytes[3], call.bytes[4])
  /\ UNCHANGED <<parsed, sessionVars>>

\* The Buffer createBinaryMessage returned is handed to parseBinaryMessage.
ApiParseCreated ==
  /\ call.op = "create" /\ call.returned
  /\ call' = [call EXCEPT !.op = "create-parse"]
  /\ parsed' = parseBinaryMessageBytes(buffer)
  /\ UNCHANGED <<buffer, sessionVars>>

ApiParseBinaryMessage ==
  /\ call.op = "parse" /\ ~call.returned
  /\ call' = [call EXCEPT !.returned = TRUE]
  /\ parsed' = parseBinaryMessageBytes(buffer)
  /\ UNCHANGED <<buffer, sessionVars>>

ApiParseWidgetUpdate ==
  /\ call.op \in {"parseWidgetUpdate", "parseTelemetry"} /\ ~call.returned
  /\ call' = [call EXCEPT !.returned = TRUE]
  /\ parsed' = parseWidgetUpdateBytes(buffer)
  /\ UNCHANGED <<buffer, sessionVars>>

\* calculateHash(email, password): parsed holds the text returned.
ApiCalculateHash ==
  /\ call.op = "calculateHash" /\ ~call.returned
  /\ call' = [call EXCEPT !.returned = TRUE]
  /\ parsed' = calculateHash(call.fields[1], call.fields[2])
  /\ UNCHANGED <<buffer, sessionVars>>

NextCodec ==
  \/ ApiCalculateHash
  \/ ApiCreateBinaryMessage
  \/ ApiParseCreated
  \/ ApiParseBinaryMessage
  \/ ApiParseWidgetUpdate

SpecCodec == InitCodec /\ [][NextCodec]_vars

\* ================================================================== claims

\* Position of a request frame in the handshake, by its first three header
\* bytes; 6 for every other frame (the keepalive).
StageIndex(f) ==
  LET h == <<f.hdr[1], f.hdr[2], f.hdr[3]>> IN
  CASE h = <<1, 48, 0>> -> 1
    [] h = <<0, 2, 0>>  -> 2
    [] h = <<1, 27, 0>> -> 3
    [] h = <<0, 73, 1>> -> 4
    [] h = <<1, 4, 1>>  -> 5
    [] OTHER            -> 6

\* The first three header bytes of the frames written, in order.
Stages(frames) == [i \in DOMAIN frames |-> StageIndex(frames[i])]

\* C1: the request frames leave in the order Init, Login, Device Query,
\* Device Select, Device Page, each at most once and none after a keepalive;
\* Device Select and Device Page name the first discovered device; a frame
\* is written only while no listen() is pending, and every frame after Init
\* only after a listen() has returned.
C1_HandshakeOrder ==
  [][ /\ \A i, j \in DOMAIN out' :
           (i < j /\ StageIndex(out'[j]) <= 5) => StageIndex(out'[i]) < StageIndex(out'[j])
      /\ \A i \in DOMAIN out' :
           /\ StageIndex(out'[i]) = 4 =>
                out'[i].body = Utf8Body(ToString(devices'[1].deviceId))
           /\ StageIndex(out'[i]) = 5 =>
                out'[i].body.v.deviceId = ToString(devices'[1].deviceId)
      /\ out' # out =>
           /\ ~waiting
           /\ Len(out') = Len(out) + 1
           /\ StageIndex(out'[Len(out')]) > 1 => via \in {"message", "timeout"}
    ]_vars

C1_Witness ==
  /\ pc = "ka0"
  /\ Stages(out) = <<1, 2, 3, 4, 5>>

\* C2 as stated: at each of the five handshake stages a listen() that
\* returned a null payload makes run() fail without writing another frame.
C2_NullPayloadFailsEveryStage ==
  [][ /\ (pc \in HandshakeWaits \cup {"extract"} /\ ~waiting /\ result.payload = Null
            /\ pc' # pc)
         => /\ out' = out
            /\ IF pc = "page_wait" THEN pc' = "extract"
                                   ELSE pc' = "failed" /\ error' # ""
      /\ pc = "failed" => (pc' = "failed" /\ out' = out)
    ]_vars

\* C2 amended: at Init, Login, Device Query and Device Page a listen() that
\* returned a null payload makes run() fail with an error without writing
\* another frame; at Device Select the null payload is ignored and run()
\* goes on to send the Device Page request.
C2_NullPayloadFails ==
  [][ /\ (pc \in (HandshakeWaits \ {"select_wait"}) \cup {"extract"} /\ ~waiting
            /\ result.payload = Null /\ pc' # pc)
         => /\ out' = out
            /\ IF pc = "page_wait" THEN pc' = "extract"
                                   ELSE pc' = "failed" /\ error' # ""
      /\ (pc = "select_wait" /\ ~waiting /\ result.payload = Null /\ pc' # pc)
         => /\ pc' = "page_wait"
            /\ lastCall'.counter = messageCounter
            /\ lastCall'.outcome = "written" =>
                 (Len(out') = Len(out) + 1 /\ StageIndex(out'[Len(out')]) = 5)
      /\ pc = "failed" => (pc' = "failed" /\ out' = out)
    ]_vars

\* The listen() after Device Select timed out, and the Device Page request
\* is on the wire.
C2_Witness ==
  /\ pc = "page_wait"
  /\ registered = 2
  /\ Stages(out) = <<1, 2, 3, 4, 5>>

\* C3: once connect() has returned true, run() has called close() on the
\* socket whenever it has ended, however it ended.
C3_SocketClosedOnExit ==
  (connectResult = "true" /\ pc \in {"done", "failed"}) =>
    (closeCalls = 1 /\ ws = "closed")

C3_Witness ==
  /\ connectResult = "true"
  /\ pc = "done"
  /\ justScan
  /\ closeCalls = 1

\* C4 as stated: every telemetry frame decoded by a listen() made after the
\* handshake has been republished as one 'widgetUpdate' event carrying its
\* widgetId, deviceId and widgetValue, in the order of receipt.
C4_TelemetryRepublished ==
  /\ Len(events) = Len(decoded)
  /\ \A i \in DOMAIN events :
       /\ events[i].widgetId = decoded[i].v.widgetId
       /\ events[i].deviceId = decoded[i].v.deviceId
       /\ events[i].widgetValue = decoded[i].v.widgetValue

\* C5 as stated: a listen() that has returned has left no handler on the
\* socket, so at most one handler of listen() is registered and no handler
\* of an earlier call is invoked.
C5_HandlerDeregistered ==
  /\ ~waiting => registered = 0
  /\ registered <= 1
  /\ ~staleInvoked

\* C6: while a listen(t) is pending t seconds have not yet passed and no
\* frame has reached its handler; when it has returned, it returned either
\* the decoding of the frame that arrived, no later than t seconds after the
\* call, or (null, null) exactly t seconds after the call with no frame
\* received.  t is 20 in the steady-state listen and 10 everywhere else.
C6_ListenReturn ==
  /\ waiting =>
       (via = "pending" /\ got = NoFrame /\ now <= listenAt + listenFor * 1000)
  /\ (pc \in AwaitPcs /\ ~waiting) =>
       /\ listenFor = (IF pc = "listen20_wait" THEN SteadyListenS ELSE DefaultListenS)
       /\ \/ /\ via = "message"
             /\ got \in ServerFrames
             /\ now <= listenAt + listenFor * 1000
             /\ result = parseBinaryMessage(got)
             /\ Len(got.hdr) < 4 => result = NullResult
             /\ Len(got.hdr) = 4 =>
                  /\ <<result.header.byte1, result.header.byte2,
                       result.header.byte3, result.header.byte4>> = got.hdr
                  /\ (result.payload = Null) = (got.body = NoBody)
          \/ /\ via = "timeout"
             /\ got = NoFrame
             /\ result = NullResult
             /\ now = listenAt + listenFor * 1000

\* The steady-state listen(20) has timed out.
C6_Witness ==
  /\ pc = "listen20_wait"
  /\ ~waiting
  /\ via = "timeout"
  /\ now = listenAt + 20000

\* C7 as stated: the frames returned by listen() calls are the frames that
\* arrived, in arrival order and without a gap: the k-th frame returned is
\* the k-th binary frame the socket received.
C7_EveryFrameReturned ==
  /\ nReturned <= nArrived
  /\ lastIdx = nReturned

\* A step is a sendMessage call exactly when it records a new lastCall.
\* C8 as stated: a frame written with b4 omitted carries the counter's value
\* as its fourth header byte and the counter then grows by 1; a frame written
\* with an explicit b4 carries that value and leaves the counter alone;
\* nothing else changes the counter, which never decreases.
C8_B4IsCounter ==
  [][ /\ (lastCall' # lastCall /\ lastCall'.outcome = "written") =>
           IF lastCall'.byte4 = Undefined
             THEN /\ lastCall'.frame.hdr[4] = messageCounter
                  /\ messageCounter' = messageCounter + 1
             ELSE /\ lastCall'.frame.hdr[4] = lastCall'.byte4[1]
                  /\ messageCounter' = messageCounter
      /\ lastCall' = lastCall => messageCounter' = messageCounter
      /\ messageCounter' >= messageCounter
    ]_vars

\* C8 amended: on a session that has a socket, sendMessage with b4 omitted
\* grows the counter by exactly 1 and the frame it writes, if the write
\* succeeds, carries the counter's previous value modulo 256; with an
\* explicit b4 it writes that value and leaves the counter alone; without a
\* socket it writes nothing and leaves the counter alone; nothing else
\* changes the counter, which never decreases.
C8_B4IsCounterMod256 ==
  [][ /\ lastCall' # lastCall =>
           /\ lastCall'.counter = messageCounter
           /\ IF ws = "null"
                THEN /\ lastCall'.outcome = "nosocket"
                     /\ lastCall'.frame = NoFrame
                     /\ messageCounter' = messageCounter
                ELSE /\ messageCounter' = (IF lastCall'.byte4 = Undefined
                                             THEN messageCounter + 1 ELSE messageCounter)
                     /\ ws = "open" => lastCall'.outcome = "written"
                     /\ lastCall'.outcome = "written" =>
                          lastCall'.frame.hdr[4] =
                            (IF lastCall'.byte4 = Undefined
                               THEN messageCounter % 256 ELSE lastCall'.byte4[1])
      /\ lastCall' = lastCall => messageCounter' = messageCounter
      /\ messageCounter' >= messageCounter
    ]_vars

\* The 257th frame sent with b4 omitted has been written with b4 = 0.
C8_Witness ==
  /\ lastCall.byte4 = Undefined
  /\ lastCall.outcome = "written"
  /\ lastCall.counter = 256
  /\ lastCall.frame.hdr[4] = 0
  /\ messageCounter = 257

\* C9 as stated: every frame written with b4 omitted carries a b4 greater
\* than the b4 of the previous such frame.
C9_B4Increasing ==
  [][ (lastCall' # lastCall /\ lastCall'.byte4 = Undefined
         /\ lastCall'.outcome = "written" /\ lastAutoB4 # Undefined)
      => lastCall'.frame.hdr[4] > lastAutoB4[1]
    ]_vars

\* C9 amended: the b4 of a frame written with b4 omitted is the counter
\* modulo 256: it is greater than the b4 of the previous such frame as long
\* as the counter is below 256, and it is 0 again when the counter is 256.
C9_B4IncreasingBelow256 ==
  [][ (lastCall' # lastCall /\ lastCall'.byte4 = Undefined
         /\ lastCall'.outcome = "written")
      => /\ lastCall'.frame.hdr[4] = messageCounter % 256
         /\ lastAutoB4' = <<lastCall'.frame.hdr[4]>>
         /\ (lastAutoB4 # Undefined /\ messageCounter < 256) =>
              lastCall'.frame.hdr[4] > lastAutoB4[1]
         /\ messageCounter = 256 => lastCall'.frame.hdr[4] = 0
    ]_vars

\* Frames with b4 omitted have been written past the wrap.
C9_Witness ==
  /\ ws = "open"
  /\ lastAutoB4 = <<1>>
  /\ messageCounter = 258

\* C11: keepalive() calls sendMessage only when at least 15000 ms have
\* passed since keepaliveTimer, and sets keepaliveTimer to the time of the
\* call; nothing else changes keepaliveTimer, which is therefore 0 (the
\* construction) or the time of the latest keepalive send, and nothing else
\* writes a keepalive frame: two keepalive sends are at least 15000 ms apart
\* and a call less than 15000 ms after a send sends nothing.
C11_KeepaliveSpacing ==
  [][ /\ (pc \in {"ka0", "ka"} /\ pc' # pc) =>
           IF now - keepaliveTimer >= 15000
             THEN /\ lastCall' # lastCall
                  /\ keepaliveTimer' = now
                  /\ lastCall'.outcome = "written" =>
                       /\ out' = Append(out, lastCall'.frame)
                       /\ StageIndex(lastCall'.frame) = 6
             ELSE /\ lastCall' = lastCall
                  /\ out' = out
                  /\ keepaliveTimer' = keepaliveTimer
      /\ keepaliveTimer' # keepaliveTimer => (pc \in {"ka0", "ka"} /\ lastCall' # lastCall)
      /\ (out' # out /\ StageIndex(out'[Len(out')]) = 6) => pc \in {"ka0", "ka"}
      /\ keepaliveTimer' <= now'
    ]_vars

\* Two keepalive frames are on the wire, and a keepalive() call made less
\* than 15000 ms after the second has sent nothing.
C11_Witness ==
  /\ pc = "listen20"
  /\ Stages(out) = <<1, 2, 3, 4, 5, 6, 6>>
  /\ now - keepaliveTimer = 5000

\* C12 as stated: with the scan-only flag set, once the Device Page response
\* has been processed run() calls neither sendMessage nor listen().
C12_ScanStopsAfterPage ==
  [][ (justScan /\ pc \in {"extract", "ka0"})
      => (lastCall' = lastCall /\ out' = out /\ ~waiting' /\ registered' = registered)
    ]_vars

\* C13 as stated: once connect() has succeeded, a connection that drops is
\* followed by the end of run().
C13_DropEndsRun ==
  (connectResult = "true" /\ ws = "closed" /\ closeCalls = 0)
    ~> (pc \in {"done", "failed"})

\* C14: when connect() has returned false, run() has returned without an
\* error, no sendMessage and no listen() call has been made, nothing has
\* been written, and the user, the device list, the device-page list, the
\* widget maps and the message counter are as constructed.
C14_ConnectFalseReturns ==
  connectResult = "false" =>
    /\ pc = "done"
    /\ error = ""
    /\ out = <<>>
    /\ lastCall = NoCall
    /\ via = "none" /\ ~waiting /\ registered = 0
    /\ user = Null
    /\ devices = <<>>
    /\ devicePages = <<>>
    /\ widgetIdMap = EmptyMap /\ widgetNameMap = EmptyMap
    /\ messageCounter = 0
    /\ closeCalls = 0

C14_Witness ==
  /\ connectResult = "false"
  /\ pc = "done"
  /\ now > 0

\* run() has not yet processed the response to Login / to Device Query.
BeforeLogin == {"idle", "connecting", "init", "init_wait", "login", "login_wait"}
BeforeQuery == BeforeLogin \cup {"query", "query_wait"}
\* run() is past the handshake.
AfterHandshake ==
  {"ka0", "ka0_wait", "while", "ka", "ka_wait", "listen20", "listen20_wait", "done"}

\* C15: the user is null as long as the listen() after the Login send has
\* not returned; when it has returned a non-null payload the user becomes
\* exactly that payload, when it has returned a null payload run() fails
\* and the user stays null; no other step changes the user.
C15_UserSetOnceByLogin ==
  [][ /\ pc' \in BeforeLogin => user' = Null
      /\ (pc = "login_wait" /\ pc' # pc) =>
           IF result.payload # Null
             THEN pc' = "query" /\ user' = result.payload
             ELSE pc' = "failed" /\ user' = Null
      /\ user' # user => (pc = "login_wait" /\ pc' = "query" /\ user = Null)
    ]_vars

\* Login was answered with a frame other than a user profile: the user is
\* that frame's payload, and run() is past the handshake.
C15_Witness ==
  /\ pc = "while"
  /\ user = Obj(DeviceQueryDoc)

\* C16: the device list is empty as long as the Device Query response has
\* not been processed; processing it makes the list the second elements of
\* the tuples of the response's docs, in their order; no other step changes
\* the list.
C16_DevicesFromQuery ==
  [][ /\ pc' \in BeforeQuery => devices' = <<>>
      /\ (pc = "query_wait" /\ pc' = "select") =>
           /\ HasDocs(result.payload)
           /\ LET docs == result.payload.v.docs IN
                /\ Len(devices') = Len(docs)
                /\ \A i \in 1..Len(docs) : devices'[i] = docs[i][2]
      /\ devices' # devices => (pc = "query_wait" /\ pc' = "select" /\ devices = <<>>)
    ]_vars

\* The response listed two devices.
C16_Witness ==
  /\ devices = <<Garage, HomeCharger>>
  /\ pc = "select"

\* C17: after the Device Query response run() fails with "No devices found"
\* when the device list is empty and with "Device ID was not set" when the
\* first device has no deviceId, and goes on otherwise; after either
\* failure no Device Select or Device Page frame has been written and the
\* device-page list is empty.
C17_NoDeviceFails ==
  [][ /\ (pc = "select" /\ pc' # pc) =>
           IF Len(devices) = 0
             THEN pc' = "failed" /\ error' = "No devices found"
           ELSE IF "deviceId" \notin DOMAIN devices[1]
             THEN pc' = "failed" /\ error' = "Device ID was not set"
           ELSE pc' = "status" /\ error' = ""
      /\ error' \in {"No devices found", "Device ID was not set"} =>
           /\ pc' = "failed"
           /\ devicePages' = <<>>
           /\ \A i \in DOMAIN out' : StageIndex(out'[i]) \notin {4, 5}
           /\ lastCall'.counter = 0
    ]_vars

\* The first of two devices has no deviceId.
C17_Witness ==
  /\ pc = "failed"
  /\ error = "Device ID was not set"
  /\ devices = <<Garage, HomeCharger>>
  /\ Stages(out) = <<1, 2, 3>>

\* C18: when every listen() of the handshake has returned the server's
\* answer to the request before it (Device Query answered with one device,
\* Device Page with one stream of id 5 named "Charging Power"), then after
\* the handshake the device list and the device-page list have one entry
\* each, and slot 0 of the id map at "5" and slot 0 of the name map at
\* "Charging Power" hold the same stream descriptor, the one of the page.
C18_EndToEnd ==
  (connectResult = "true" /\ inOrder /\ pc \in AfterHandshake) =>
    /\ Len(devices) = 1
    /\ Len(devicePages) = 1
    /\ 0 \in DOMAIN widgetIdMap
    /\ 0 \in DOMAIN widgetNameMap
    /\ "5" \in DOMAIN widgetIdMap[0]
    /\ "Charging Power" \in DOMAIN widgetNameMap[0]
    /\ widgetIdMap[0]["5"] = widgetNameMap[0]["Charging Power"]
    /\ widgetIdMap[0]["5"] = ChargingPower

C18_Witness ==
  /\ pc = "ka0"
  /\ inOrder
  /\ nReturned = 5
  /\ devicePages = <<Obj(DevicePageDoc)>>

\* The streams of a page in the order extractWidgetMappings visits them.
StreamsOf(devicePage) == DisplayDataStreams(devicePage.v.dashboard.widgets)

\* The last stream among streams that agrees with s on the field key.
LastWith(streams, key, s) ==
  streams[CHOOSE i \in DOMAIN streams :
            /\ streams[i][key] = s[key]
            /\ \A j \in DOMAIN streams : streams[j][key] = s[key] => j <= i]

\* C19 as stated: after extractWidgetMappings(d, page) every stream s of the
\* page has an entry in slot d of the id map at String(s.id) and in slot d
\* of the name map at s.name, and the two entries are the same descriptor.
C19_BothMapsSameStream ==
  \A d \in ExtractSlots : d < Len(devicePages) =>
    /\ d \in DOMAIN widgetIdMap
    /\ d \in DOMAIN widgetNameMap
    /\ LET streams == StreamsOf(devicePages[d + 1]) IN
       \A i \in DOMAIN streams :
         /\ ToString(streams[i].id) \in DOMAIN widgetIdMap[d]
         /\ streams[i].name \in DOMAIN widgetNameMap[d]
         /\ widgetIdMap[d][ToString(streams[i].id)] = widgetNameMap[d][streams[i].name]

\* C19 amended: after extractWidgetMappings(d, page) every stream s of the
\* page has an entry in slot d of the id map at String(s.id) and in slot d
\* of the name map at s.name; the id entry is the last stream of the page
\* with s's id and the name entry the last stream of the page with s's
\* name, so the two are the same descriptor, s itself, when no other stream
\* of the page shares s's id or s's name.
C19_LastStreamWins ==
  \A d \in ExtractSlots : d < Len(devicePages) =>
    /\ d \in DOMAIN widgetIdMap
    /\ d \in DOMAIN widgetNameMap
    /\ LET streams == StreamsOf(devicePages[d + 1]) IN
       \A i \in DOMAIN streams :
         LET s == streams[i] IN
         /\ ToString(s.id) \in DOMAIN widgetIdMap[d]
         /\ s.name \in DOMAIN widgetNameMap[d]
         /\ widgetIdMap[d][ToString(s.id)] = LastWith(streams, "id", s)
         /\ widgetNameMap[d][s.name] = LastWith(streams, "name", s)
         /\ (\A j \in DOMAIN streams : (streams[j].id = s.id \/ streams[j].name = s.name)
                                           => streams[j] = s)
              => /\ widgetIdMap[d][ToString(s.id)] = s
                 /\ widgetNameMap[d][s.name] = s

\* A page whose two streams share the id 5 has been extracted into slot 0:
\* the id map holds the second, the name map still resolves the first.
C19_Witness ==
  /\ devicePages = <<OneModule(<<ChargingPower, Voltage>>)>>
  /\ widgetIdMap[0]["5"] = Voltage
  /\ widgetNameMap[0]["Charging Power"] = ChargingPower

\* A step of run() is a sendMessage call exactly when it moves run() on and
\* records a new lastCall.
\* C20 as stated: the frames run() writes carry the headers Init
\* (1,48,0,1), Login (0,2,0,3), Device Query (1,27,0,0), Device Select
\* (0,73,1,1), Device Page (1,4,1,2), and every keepalive (0,6,0,n) with n
\* one more than the b4 of the counted frame before it: 3, 4, 5, and so on;
\* Init and Login leave the counter alone.
C20_HeadersCountUp ==
  [][ (pc' # pc /\ lastCall' # lastCall /\ lastCall'.outcome = "written") =>
        LET h == lastCall'.frame.hdr IN
        CASE pc = "init"        -> h = <<1, 48, 0, 1>> /\ messageCounter' = messageCounter
          [] pc = "login"       -> h = <<0, 2, 0, 3>> /\ messageCounter' = messageCounter
          [] pc = "query"       -> h = <<1, 27, 0, 0>>
          [] pc = "status"      -> h = <<0, 73, 1, 1>>
          [] pc = "select_wait" -> h = <<1, 4, 1, 2>>
          [] OTHER              -> h = <<0, 6, 0, lastAutoB4[1] + 1>> /\ h[4] >= 3
    ]_vars

\* C20 amended: the frames run() writes carry the headers Init (1,48,0,1),
\* Login (0,2,0,3), Device Query (1,27,0,0), Device Select (0,73,1,1),
\* Device Page (1,4,1,2), and every keepalive (0,6,0,n) with n one more,
\* modulo 256, than the b4 of the counted frame before it: 3, 4, ..., 255,
\* 0, 1, and so on; Init and Login leave the counter alone.
C20_HeadersCountUpMod256 ==
  [][ (pc' # pc /\ lastCall' # lastCall /\ lastCall'.outcome = "written") =>
        LET h == lastCall'.frame.hdr IN
        CASE pc = "init"        -> h = <<1, 48, 0, 1>> /\ messageCounter' = messageCounter
          [] pc = "login"       -> h = <<0, 2, 0, 3>> /\ messageCounter' = messageCounter
          [] pc = "query"       -> h = <<1, 27, 0, 0>>
          [] pc = "status"      -> h = <<0, 73, 1, 1>>
          [] pc = "select_wait" -> h = <<1, 4, 1, 2>>
          [] OTHER              -> /\ pc \in {"ka0", "ka"}
                                   /\ h = <<0, 6, 0, (lastAutoB4[1] + 1) % 256>>
                                   /\ messageCounter' = messageCounter + 1
    ]_vars

\* The keepalive after the one with b4 = 255 has been written with b4 = 0.
C20_Witness ==
  /\ pc = "ka_wait"
  /\ lastCall.outcome = "written"
  /\ lastCall.frame.hdr = <<0, 6, 0, 0>>
  /\ inOrder

\* ---- the codec, under SpecCodec
\* The bytes after the header.
PayloadOf(data) == SubSeq(data, HeaderLen + 1, Len(data))
\* hex is the lower-case hex text of bytes: two digits a byte, high first.
HexOf(hex, bytes) ==
  /\ Len(hex) = 2 * Len(bytes)
  /\ \A k \in 1..Len(hex) : hex[k] \in (48..57) \cup (97..102)
  /\ \A i \in 1..Len(bytes) :
       16 * HexValue(hex[2 * i - 1]) + HexValue(hex[2 * i]) = bytes[i]
PrintableByte(b) == (b >= 32 /\ b <= 126) \/ b \in {10, 13, 9}
AllPrintable(bytes) == \A i \in 1..Len(bytes) : PrintableByte(bytes[i])
\* parseBinaryMessage has returned for a Buffer with a payload.
ParsedWithPayload == call.op = "parse" /\ call.returned /\ Len(buffer) > HeaderLen

\* C21: parsing what createBinaryMessage(payload, b1, b2, b3, b4) returned
\* gives a header that is not null and whose byte1..byte4 are b1..b4, for
\* a null, a string and a map payload alike.
C21_HeaderRoundTrip ==
  call.op = "create-parse" =>
    /\ parsed.header # Null
    /\ << parsed.header.byte1, parsed.header.byte2,
          parsed.header.byte3, parsed.header.byte4 >> = call.bytes

C21_Witness ==
  /\ call.op = "create-parse"
  /\ call.payload = TestMap
  /\ call.bytes = <<255, WidgetUpdateB2, 0, 255>>
  /\ parsed.header.byte2 = WidgetUpdateB2

\* C22: parseBinaryMessage returns a null header and a null payload for
\* every Buffer of fewer than four bytes.
C22_ShortIsNull ==
  call.op = "parse" /\ call.returned /\ Len(buffer) < HeaderLen => parsed = NullResult

C22_Witness ==
  /\ call.op = "parse" /\ call.returned
  /\ Len(buffer) = HeaderLen - 1
  /\ parsed = NullResult

\* C23: createBinaryMessage with a null payload returns exactly the four
\* header bytes, and parsing them gives hasPayload false, a null payload
\* and no payloadType, whatever the header (byte2 = 0x14 included).
C23_NullPayloadIsHeaderOnly ==
  call.op \in {"create", "create-parse"} /\ call.returned /\ call.payload = Null =>
    /\ buffer = call.bytes
    /\ call.op = "create-parse" =>
         /\ parsed.header # Null
         /\ parsed.header.hasPayload = FALSE
         /\ parsed.header.payloadType = "unset"
         /\ parsed.payload = Null

C23_Witness ==
  /\ call.op = "create-parse"
  /\ call.payload = Null
  /\ call.bytes[2] = WidgetUpdateB2
  /\ parsed.header.hasPayload = FALSE

\* C24 as stated: for every map m and every header, parsing
\* createBinaryMessage(m, b1, b2, b3, b4) gives payloadType 'json' and a
\* payload equal to m.
C24_MapRoundTrip ==
  call.op = "create-parse" /\ call.payload.t = "obj" =>
    /\ parsed.header.payloadType = "json"
    /\ parsed.payload = call.payload

\* C24, amended: the same for every header whose byte2 is not 0x14.
C24_MapRoundTripNotTelemetry ==
  call.op = "create-parse" /\ call.payload.t = "obj" /\ call.bytes[2] # WidgetUpdateB2 =>
    /\ parsed.header.payloadType = "json"
    /\ parsed.payload = call.payload

C24_Witness ==
  /\ call.op = "create-parse"
  /\ call.payload = QuotedMap
  /\ call.bytes[2] = 255
  /\ parsed.header.payloadType = "json"

\* C25: a parsed Buffer of more than four bytes has one payloadType among
\* widget_update, json, ascii, text and binary, and it is widget_update
\* exactly when byte2 is 0x14, whatever the payload holds.
C25_TypeByHeaderFirst ==
  ParsedWithPayload =>
    /\ parsed.header.payloadType \in {"widget_update", "json", "ascii", "text", "binary"}
    /\ parsed.header.payloadType = "widget_update" <=> buffer[2] = WidgetUpdateB2

C25_Witness ==
  /\ ParsedWithPayload
  /\ buffer = <<0, WidgetUpdateB2, 0, 0, 123, 125>>
  /\ parsed.header.payloadType = "widget_update"

\* C26: parseWidgetUpdate of d 0x00 x 0x00 w 0x00 v, no field holding a
\* NUL, returns deviceId d, widgetId w and widgetValue v and nothing else:
\* x is ignored and there is no error field.
C26_TelemetryFields ==
  call.op = "parseTelemetry" /\ call.returned =>
    parsed = Obj([ widgetId    |-> call.fields[3],
                   deviceId    |-> call.fields[1],
                   widgetValue |-> call.fields[4] ])

C26_Witness ==
  /\ call.op = "parseTelemetry" /\ call.returned
  /\ call.fields = TestTelemetry
  /\ parsed.v.widgetValue = TestTelemetry[4]

\* C27: parseWidgetUpdate of a payload without a NUL (the empty one
\* included) returns an error and rawHex, the hex text of the payload, and
\* no deviceId, widgetId or widgetValue.
C27_NoNulIsError ==
  /\ call.op = "parseWidgetUpdate" /\ call.returned
  /\ \A i \in 1..Len(buffer) : buffer[i] # 0
  => /\ DOMAIN parsed.v = {"error", "rawHex"}
     /\ HexOf(parsed.v.rawHex, buffer)

C27_Witness ==
  /\ call.op = "parseWidgetUpdate" /\ call.returned
  /\ buffer = <<>>
  /\ "error" \in DOMAIN parsed.v

\* C28: with byte2 not 0x14 a payload is json if it parses as JSON;
\* otherwise ascii exactly when every byte of it is in 0x20..0x7E or is LF,
\* CR or TAB, and then it is returned byte for byte; otherwise text if its
\* UTF-8 decoding is printable; otherwise binary.
C28_FallbackOrder ==
  ParsedWithPayload /\ buffer[2] # WidgetUpdateB2 =>
    LET p == PayloadOf(buffer)
        type == parsed.header.payloadType IN
    IF JSONparse(toStringUtf8(p)).ok THEN type = "json"
    ELSE IF AllPrintable(p) THEN type = "ascii" /\ parsed.payload = Str(p)
    ELSE IF isPrintableStr(toStringUtf8(p)) THEN type = "text"
    ELSE type = "binary"

\* C29 as stated: with byte2 not 0x14 a payload of printable bytes only is
\* classified ascii or text and the decoded payload is that string.
C29_PrintableIsText ==
  ParsedWithPayload /\ buffer[2] # WidgetUpdateB2 /\ AllPrintable(PayloadOf(buffer)) =>
    /\ parsed.header.payloadType \in {"ascii", "text"}
    /\ parsed.payload = Str(PayloadOf(buffer))

\* C29, amended: such a payload is never binary; it is json, with the
\* value read from it, when it is a JSON text, and ascii, with the payload
\* that string, when it is not.
C29_PrintableIsJsonOrAscii ==
  ParsedWithPayload /\ buffer[2] # WidgetUpdateB2 /\ AllPrintable(PayloadOf(buffer)) =>
    LET json == JSONparse(PayloadOf(buffer)) IN
    IF json.ok
      THEN parsed.header.payloadType = "json" /\ parsed.payload = json.v
      ELSE parsed.header.payloadType = "ascii" /\ parsed.payload = Str(PayloadOf(buffer))

C29_Witness ==
  /\ ParsedWithPayload
  /\ buffer = <<0, 0, 0, 0, 49>>
  /\ parsed.header.payloadType = "json"

\* The descriptor of a binary payload: its hex text, its length and the
\* hex text of its first PreviewLen bytes (of all of it when it is shorter).
IsBinaryDescriptor(d, bytes) ==
  /\ d.t = "obj"
  /\ DOMAIN d.v = {"hex", "length", "preview"}
  /\ HexOf(d.v.hex, bytes)
  /\ d.v.length = Len(bytes)
  /\ HexOf(d.v.preview,
           SubSeq(bytes, 1, IF Len(bytes) > PreviewLen THEN PreviewLen ELSE Len(bytes)))

\* C30 as stated: a payload with a byte in 0x00..0x08 is classified binary,
\* its payload the descriptor of the bytes.
C30_ControlIsBinary ==
  ParsedWithPayload /\ (\E i \in (HeaderLen + 1)..Len(buffer) : buffer[i] <= 8) =>
    /\ parsed.header.payloadType = "binary"
    /\ IsBinaryDescriptor(parsed.payload, PayloadOf(buffer))

\* C30, amended: the same when byte2 is not 0x14.
C30_ControlIsBinaryNotTelemetry ==
  /\ ParsedWithPayload /\ buffer[2] # WidgetUpdateB2
  /\ \E i \in (HeaderLen + 1)..Len(buffer) : buffer[i] <= 8
  => /\ parsed.header.payloadType = "binary"
     /\ IsBinaryDescriptor(parsed.payload, PayloadOf(buffer))

C30_Witness ==
  /\ ParsedWithPayload
  /\ buffer = <<0, 0, 0, 0>> \o LongPayload(PreviewLen + 1)
  /\ parsed.header.payloadType = "binary"
  /\ Len(parsed.payload.v.preview) = 2 * PreviewLen

\* C31: calculateHash(e, p) is calculateHash(lowercase(e), p), and no
\* other password of the model gives the same hash with e: the password is
\* hashed as it is given.
C31_EmailCaseOnly ==
  call.op = "calculateHash" /\ call.returned =>
    /\ parsed = calculateHash(toLowerCase(call.fields[1]), call.fields[2])
    /\ \A pass \in HashPasswords :
         pass # call.fields[2] => calculateHash(call.fields[1], pass) # parsed

\* calculateHash('Test@Example.Com', 'PW') has returned the hash of
\* ('test@example.com', 'PW').
C31_Witness ==
  /\ call.op = "calculateHash" /\ call.returned
  /\ call.fields = << <<84, 101, 115, 116, 64, 69, 120, 97, 109, 112, 108, 101, 46, 67, 111, 109>>,
                      <<80, 87>> >>
  /\ parsed = calculateHash(
                <<116, 101, 115, 116, 64, 101, 120, 97, 109, 112, 108, 101, 46, 99, 111, 109>>,
                <<80, 87>>)

\* ---- the steady state again
\* A step is a keepalive() call when run() stands before one and moves on.
KeepaliveStep == pc \in {"ka0", "ka"} /\ pc' # pc
KeepaliveFires == now - keepaliveTimer >= KeepaliveMs
\* The keepalive frame: no payload, b4 the counter in one byte.
KeepaliveFrame == [hdr |-> <<0, 6, 0, messageCounter % ByteMod>>, body |-> NoBody]
\* One listen() of 10 s begins in this step.
DefaultListenBegins ==
  /\ registered' = registered + 1
  /\ waiting'
  /\ listenAt' = now /\ listenFor' = DefaultListenS
  /\ deadline' = now + DefaultListenS * 1000

InLoop == pc \in {"while", "ka", "ka_wait", "listen20", "listen20_wait"}

\* The order of one round of the loop: the test, keepalive() with its
\* optional listen(), listen(20), and back to the test.
LoopOrder ==
  \/ pc' = pc
  \/ pc = "while" /\ pc' = "ka"
  \/ pc = "ka" /\ pc' \in {"ka_wait", "listen20"}
  \/ pc = "ka_wait" /\ pc' = "listen20"
  \/ pc = "listen20" /\ pc' = "listen20_wait"
  \/ pc = "listen20_wait" /\ pc' = "while"

\* C33: without the scan-only flag run(), once past the handshake, neither
\* returns nor fails nor calls close(): every step it takes is the next one
\* of keepalive() followed by listen(20), also after a listen(20) that
\* timed out with (null, null).
C33_LoopNeverEnds ==
  [][ InLoop /\ ~justScan
        => InLoop' /\ LoopOrder /\ closeCalls' = closeCalls /\ error' = error ]_vars

\* A listen(20) has timed out and run() stands before the next keepalive().
C33_Witness ==
  /\ pc = "ka" /\ ~justScan
  /\ via = "timeout" /\ listenFor = SteadyListenS /\ result = NullResult
  /\ ws = "open" /\ closeCalls = 0

\* run() resumes from the listen() of a handshake stage that a frame with
\* a decoded payload has settled.
StageSettledByFrame ==
  /\ pc \in HandshakeWaits /\ pc' # pc
  /\ via = "message" /\ result.payload # Null

\* Where run() stands once the stage waiting at p has completed.
StageAfter(p) ==
  CASE p = "init_wait"   -> "login"
    [] p = "login_wait"  -> "query"
    [] p = "query_wait"  -> "select"
    [] p = "select_wait" -> "page_wait"
    [] p = "page_wait"   -> "extract"

StageCompletes ==
  /\ pc' = StageAfter(pc)
  /\ error' = error /\ closeCalls' = closeCalls
  /\ pc = "login_wait" => user' = result.payload

\* C34 as stated: whatever frame settled the listen() of a handshake stage,
\* if its decoded payload is not null the stage completes, and at Login the
\* payload becomes the user profile; the header is never looked at.
C34_AnyPayloadCompletes == [][ StageSettledByFrame => StageCompletes ]_vars

\* C34: the same, except at Device Query, where a payload without docs (a
\* telemetry push, a late answer of Init or Login) is taken as the answer
\* too and run() fails on the TypeError of iterating it.
C34_AnyPayloadCompletesOrNoDocs ==
  [][ StageSettledByFrame =>
        IF pc = "query_wait" /\ ~HasDocs(result.payload)
          THEN pc' = "failed" /\ error' = "TypeError" /\ devices' = devices
          ELSE StageCompletes ]_vars

\* A telemetry push arrived during the Login stage and is now the user.
C34_Witness ==
  /\ pc = "query" /\ got = Telemetry
  /\ got.hdr # LoginHdr
  /\ user = parseBinaryMessage(Telemetry).payload /\ user # Null

\* C35: every entry of devicePages is a payload that is not null, and once
\* run() has failed after a listen() that timed out, the one of the Device
\* Page request included, devicePages is empty.
C35_PagesNeverNull ==
  /\ \A i \in 1..Len(devicePages) : devicePages[i] # Null
  /\ (pc = "failed" /\ via = "timeout") => devicePages = <<>>

\* C36: parseBinaryMessage, and so listen(), gives a payload that is not
\* null for every frame that has payload bytes (more than 4 bytes).
C36_PayloadBytesGivePayload == ParsedWithPayload => parsed.payload # Null

\* C37: a message that is no Buffer, arriving while a listen() waits,
\* leaves the call unresolved and its handler registered; the same listen()
\* then returns the next binary frame, decoded, or times out at the
\* deadline it was given.
C37_TextIgnored ==
  /\ [][ ignored' = ignored + 1 =>
           /\ waiting /\ waiting'
           /\ registered' = registered /\ registered >= 1
           /\ UNCHANGED <<pc, now, listenAt, listenFor, deadline, result, via, got,
                          nArrived, nReturned>> ]_vars
  /\ [](ignored > 0 /\ ~waiting /\ pc \in AwaitPcs =>
          \/ /\ via = "message"
             /\ got \in ServerFrames
             /\ result = parseBinaryMessage(got)
          \/ /\ via = "timeout"
             /\ result = NullResult
             /\ now = listenAt + listenFor * 1000)

\* A text message arrived during the listen() of a handshake stage, which
\* then returned the payload of a binary frame.
C37_Witness ==
  /\ pc \in HandshakeWaits /\ ~waiting
  /\ ignored = 1
  /\ via = "message" /\ result.payload # Null

NoCredentials == username = Null \/ password = Null

\* C39: with a null username or password login() throws before it writes a
\* Login frame: the Init frame is all run() ever sent, and once run() has
\* failed there the user is null, the message counter is 0 and the socket
\* has been closed.
C39_NoCredentialsNoLogin ==
  /\ NoCredentials =>
       /\ \A i \in 1..Len(out) : out[i].hdr = InitHdr
       /\ Len(out) <= 1
       /\ user = Null /\ messageCounter = 0
       /\ pc \in {"idle", "connecting", "init", "init_wait", "login", "done", "failed"}
  /\ [][ NoCredentials /\ pc = "login" /\ pc' # pc =>
           /\ pc' = "failed" /\ error' = "User and password must be set"
           /\ out' = out /\ out = <<[hdr |-> InitHdr, body |-> JsonBody(InitPayload.v)]>>
           /\ ws' = "closed" /\ closeCalls' = 1
           /\ UNCHANGED <<user, messageCounter, lastCall, listenVars>> ]_vars

C39_Witness ==
  /\ NoCredentials
  /\ pc = "failed" /\ error = "User and password must be set"
  /\ Len(out) = 1 /\ out[1].hdr = InitHdr
  /\ user = Null /\ messageCounter = 0 /\ ws = "closed" /\ closeCalls = 1

\* C10: a sendMessage call whose write failed, or that found no socket,
\* raises nothing: run() does not fail in that step and is suspended in the
\* listen() that follows the send, as after a successful send.
C10_SendFailureSwallowed ==
  [][ (lastCall' # lastCall /\ lastCall'.outcome \in {"threw", "dropped", "nosocket"})
      => /\ pc' \in AwaitPcs
         /\ waiting'
         /\ listenAt' = now
         /\ out' = out
         /\ error' = error
         /\ closeCalls' = closeCalls
    ]_vars

\* The write of the Login frame threw, and run() is in the listen() after it.
C10_Witness ==
  /\ pc = "login_wait"
  /\ waiting
  /\ lastCall.outcome = "threw"
  /\ lastCall.byte4 = <<3>>
  /\ Stages(out) = <<1>>

====
